---------------------------- MODULE Spec2Model ----------------------------
(***************************************************************************)
(* formatbreaker: the data source (DataBuffer, DataManager) and the parser *)
(* core (Context, Parser, Block, Section) as state machines.               *)
(*                                                                         *)
(* Bytes are identified by their position in the input: a byte string is a *)
(* sequence of pieces [lo |-> a, hi |-> b], each standing for the input    *)
(* bytes a .. b-1, kept normalised (no empty piece, adjacent pieces        *)
(* merged), so two byte strings are equal exactly when they hold the same  *)
(* input bytes in the same order.                                          *)
(***************************************************************************)
EXTENDS Integers, Sequences, FiniteSets, TLC

(***************************************************************************)
(* Bounds of the model                                                     *)
(***************************************************************************)
MaxMgrs == 3
MaxReads == 1

(* inserts into a Context, and the layers of one *)
MaxInserts == 3

MaxLayers == 2

(* bytes appended to an input that a parse consumed *)
MaxSuffix == 2

(***************************************************************************)
(* Program constants and enumerations                                      *)
(***************************************************************************)
DATA_BUFFER_SIZE == 1024 * 8

None == <<>>
Some(n) == <<n>>

Kinds == {"bytes", "stream"}

FBErrors == {"FBError", "FBNoDataError"}

(* A result value: nothing, a bit string (BitwiseBytes) or a byte string   *)
(* (bytes(BitwiseBytes)), both given by the input bits lo .. hi-1 they     *)
(* hold; ok = FALSE when the bytes handed to BitwiseBytes are not one      *)
(* contiguous run of the input.                                            *)
NoVal == [k |-> "none", lo |-> 0, hi |-> 0, ok |-> TRUE]

(***************************************************************************)
(* util.py                                                                 *)
(***************************************************************************)
uptobyte(bits) == -((-bits) \div 8)

downtobyte(bits) == bits \div 8

Max(a, b) == IF a >= b THEN a ELSE b

Min(a, b) == IF a <= b THEN a ELSE b

(***************************************************************************)
(* Byte strings (Python bytes) as normalised sequences of pieces           *)
(***************************************************************************)
RECURSIVE BytesLen(_)
BytesLen(bs) == IF bs = <<>> THEN 0
                ELSE (Head(bs).hi - Head(bs).lo) + BytesLen(Tail(bs))

(* bs + piece, as bytes.__add__ *)
BytesAppend(bs, p) ==
    IF p.hi <= p.lo THEN bs
    ELSE IF bs # <<>> /\ bs[Len(bs)].hi = p.lo
         THEN [bs EXCEPT ![Len(bs)].hi = p.hi]
         ELSE Append(bs, p)

RECURSIVE BytesConcat(_, _)
BytesConcat(a, b) == IF b = <<>> THEN a
                     ELSE BytesConcat(BytesAppend(a, Head(b)), Tail(b))

(* chunk[a:b] of a one-piece chunk, with Python's clamping of a and b *)
ChunkSlice(chunk, a, b) ==
    LET n  == chunk.hi - chunk.lo
        a1 == Min(Max(a, 0), n)
        b1 == Min(Max(b, 0), n)
    IN  IF b1 > a1 THEN <<[lo |-> chunk.lo + a1, hi |-> chunk.lo + b1]>> ELSE <<>>

ChunkFrom(chunk, a) == ChunkSlice(chunk, a, chunk.hi - chunk.lo)

ChunkUpTo(chunk, b) == ChunkSlice(chunk, 0, b)

bitlen(bs) == BytesLen(bs) * 8

(***************************************************************************)
(* bitwisebytes.py: BitwiseBytes(source, start_bit, stop_bit) over bytes   *)
(***************************************************************************)
(* validate_address_or_length(address, amin, amax) raises IndexError *)
validate_address_or_length(address, amin, amax) ==
    IF address < amin \/ address > amax THEN "IndexError" ELSE "None"

(* The constructor, then what the object holds: bit i of the object is bit *)
(* (start_bit + i) mod 8 of byte start_byte + (start_bit + i) div 8 of     *)
(* source (__getitem__), so over one contiguous piece it is the input bits *)
(* 8 * lo + start_bit .. 8 * lo + stop_bit - 1.                            *)
BitwiseBytes_checked(source, start_bit, stop_bit, data_length) ==
    IF validate_address_or_length(start_bit, 0, data_length) # "None"
    THEN [err |-> validate_address_or_length(start_bit, 0, data_length),
          val |-> NoVal]
    ELSE IF validate_address_or_length(stop_bit, 0, data_length) # "None"
    THEN [err |-> validate_address_or_length(stop_bit, 0, data_length),
          val |-> NoVal]
    ELSE IF stop_bit = start_bit
    THEN [err |-> "None", val |-> [k |-> "bits", lo |-> 0, hi |-> 0, ok |-> TRUE]]
    ELSE [err |-> "None",
          val |-> [k |-> "bits", lo |-> 8 * source[1].lo + start_bit,
                   hi |-> 8 * source[1].lo + stop_bit, ok |-> Len(source) = 1]]

BitwiseBytes(source, start_bit, stop_bit) ==
    BitwiseBytes_checked(source, start_bit, stop_bit, bitlen(source))

(* __bytes__ drops the first byte of the result when the bits span more   *)
(* than one byte of the source and start_bit < stop_bit (see               *)
(* BitwiseBytes_bytes below)                                               *)
Truncated(v) ==
    v.hi > v.lo /\ (v.lo % 8) < (v.hi % 8) /\ (v.hi \div 8) > (v.lo \div 8)

(* bytes(BitwiseBytes): the same bits, right-justified into whole bytes;   *)
(* ok = FALSE when they are not all there                                  *)
ToBytes(v) == [v EXCEPT !.k = "bytes", !.ok = v.ok /\ ~Truncated(v)]

(***************************************************************************)
(* bitwisebytes.py over the bytes themselves: data is a sequence of        *)
(* numbers 0 .. 255, data[i + 1] being byte i, and a BitwiseBytes object   *)
(* is the record of its fields.                                            *)
(***************************************************************************)
Pow2(n) == 2 ^ n

(* x >> n and the low n bits of x *)
ShiftRight(x, n) == x \div Pow2(n)

LowBits(x, n) == x % Pow2(n)

(* __init__ after the two validate_address_or_length calls *)
BitwiseBytes_fields(data, base_byte, base_bit, start_bit, stop_bit) ==
    [data |-> data,
     length |-> stop_bit - start_bit,
     start_byte |-> base_byte + (base_bit + start_bit) \div 8,
     start_bit |-> (base_bit + start_bit) % 8,
     stop_byte |-> base_byte + (base_bit + stop_bit) \div 8,
     stop_bit |-> (base_bit + stop_bit) % 8]

(* BitwiseBytes(source, start_bit, stop_bit), source being bytes: the     *)
(* object, or None when IndexError is raised; stop_bit = None stands for  *)
(* the default                                                            *)
BitwiseBytes_of_bytes(data, start_bit, stop_bit) ==
    IF validate_address_or_length(start_bit, 0, 8 * Len(data)) # "None" THEN None
    ELSE IF stop_bit = None
    THEN Some(BitwiseBytes_fields(data, 0, 0, start_bit, 8 * Len(data)))
    ELSE IF validate_address_or_length(stop_bit[1], 0, 8 * Len(data)) # "None"
    THEN None
    ELSE Some(BitwiseBytes_fields(data, 0, 0, start_bit, stop_bit[1]))

(* BitwiseBytes(source, start_bit, stop_bit), source being a BitwiseBytes *)
BitwiseBytes_of_bits(source, start_bit, stop_bit) ==
    IF validate_address_or_length(start_bit, 0, source.length) # "None" THEN None
    ELSE IF stop_bit = None
    THEN Some(BitwiseBytes_fields(source.data, source.start_byte,
                                  source.start_bit, start_bit, source.length))
    ELSE IF validate_address_or_length(stop_bit[1], 0, source.length) # "None"
    THEN None
    ELSE Some(BitwiseBytes_fields(source.data, source.start_byte,
                                  source.start_bit, start_bit, stop_bit[1]))

(* slice(start, stop).indices(length) for start, stop >= 0 *)
SliceIndices(start, stop, length) ==
    [start |-> Min(start, length), stop |-> Min(stop, length)]

(* self[start:stop], once indices has given ix: the new object is made    *)
(* from self._data, not from self                                         *)
BitwiseBytes_slice_at(self, ix) ==
    IF ix.stop - ix.start < 0 THEN None
    ELSE BitwiseBytes_of_bytes(self.data, ix.start, Some(ix.stop))

BitwiseBytes_slice(self, start, stop) ==
    BitwiseBytes_slice_at(self, SliceIndices(start, stop, self.length))

(* self[item], 0 <= item < length *)
BitwiseBytes_getitem(self, item) ==
    ShiftRight(self.data[self.start_byte + (item + self.start_bit) \div 8 + 1],
               7 - ((self.start_bit + (item % 8)) % 8)) % 2 = 1

to_bools(self) == [i \in 1..self.length |-> BitwiseBytes_getitem(self, i - 1)]

(* first_byte + mid_bytes + last_byte of __bytes__ *)
BytesData(self, last_byte_addr, stop_shift) ==
    <<LowBits(self.data[self.start_byte + 1], 8 - self.start_bit)>>
    \o SubSeq(self.data, self.start_byte + 2, last_byte_addr)
    \o <<self.data[last_byte_addr + 1]
            - LowBits(self.data[last_byte_addr + 1], stop_shift)>>

(* map(op.add, first_part, second_part): one byte fewer than data *)
BytesShifted(data, shift) ==
    [i \in 1..(Len(data) - 1) |->
        ((data[i] * Pow2(shift)) % 256) + ShiftRight(data[i + 1] * Pow2(shift), 8)]

BitwiseBytes_bytes_at_left_justified(self, last_byte_addr, stop_shift) ==
    IF last_byte_addr = self.start_byte
    THEN <<LowBits(self.data[self.start_byte + 1], 8 - self.start_bit)
             - LowBits(self.data[self.start_byte + 1], stop_shift)>>
    ELSE BytesData(self, last_byte_addr, stop_shift)

(* __bytes__ from `single_byte = ...` on *)
BitwiseBytes_bytes_at(self, last_byte_addr, stop_shift) ==
    IF last_byte_addr = self.start_byte
    THEN <<ShiftRight(LowBits(self.data[self.start_byte + 1], 8 - self.start_bit),
                      stop_shift)>>
    ELSE IF self.stop_bit = 0
    THEN BytesData(self, last_byte_addr, stop_shift)
    ELSE BytesShifted(BytesData(self, last_byte_addr, stop_shift), 8 - stop_shift)

(* bytes(self) *)
BitwiseBytes_bytes(self) ==
    IF self.length = 0 THEN <<>>
    ELSE BitwiseBytes_bytes_at(self,
            IF self.stop_bit = 0 THEN self.stop_byte - 1 ELSE self.stop_byte,
            (8 - self.stop_bit) % 8)

(* int.from_bytes(b, "big", signed=False) *)
RECURSIVE from_bytes(_)
from_bytes(b) ==
    IF b = <<>> THEN 0 ELSE 256 * from_bytes(SubSeq(b, 1, Len(b) - 1)) + b[Len(b)]

(* int(self): None stands for RuntimeError *)
BitwiseBytes_index(self) ==
    IF self.length = 0 THEN None ELSE Some(from_bytes(BitwiseBytes_bytes(self)))

(* self == other *)
BitwiseBytes_eq(self, other) ==
    /\ self.length = other.length
    /\ (self.length = 0 \/ BitwiseBytes_index(self) = BitwiseBytes_index(other))

(***************************************************************************)
(* datasource.py: DataBuffer                                               *)
(*   buffer = [bounds, buffers, stream_eof, stream_pos]; stream_pos is the *)
(*   number of bytes the stream has delivered so far.  An operator named   *)
(*   f_step is the part of method f that runs once the value it is handed  *)
(*   has been computed.                                                    *)
(***************************************************************************)
Last(s) == s[Len(s)]

lower_bound(b) == b.bounds[1]

upper_bound(b) == Last(b.bounds)

bisect_right(a, x) == Cardinality({i \in 1..Len(a) : a[i] <= x})

bisect_left(a, x) == Cardinality({i \in 1..Len(a) : a[i] < x})

(* stream.read(n) / stream.read(): the bytes delivered, at most n *)
StreamRead(b, srcLen, n) ==
    IF n = None THEN srcLen - b.stream_pos
    ELSE Min(n[1], srcLen - b.stream_pos)

(* _load_from_stream once got bytes are read; read_length None is inf *)
load_from_stream_data(b, got, read_length) ==
    IF got = 0
    THEN [buf |-> [b EXCEPT !.stream_eof =
                       read_length = None \/ got * 8 < read_length[1]],
          err |-> "None", ret |-> 0]
    ELSE [buf |-> [b EXCEPT
                     !.stream_eof = read_length = None \/ got * 8 < read_length[1],
                     !.bounds = Append(b.bounds, upper_bound(b) + got * 8),
                     !.buffers = Append(b.buffers,
                                    [lo |-> b.stream_pos, hi |-> b.stream_pos + got]),
                     !.stream_pos = b.stream_pos + got],
          err |-> "None", ret |-> got * 8]

load_from_stream_sized(b, srcLen, byte_length) ==
    load_from_stream_data(b, StreamRead(b, srcLen, Some(byte_length)),
                          Some(byte_length * 8))

(* _load_from_stream(bit_length) -> [buf, err, ret] *)
load_from_stream(b, srcLen, bit_length) ==
    IF b.stream_eof
    THEN IF bit_length = None
         THEN [buf |-> b, err |-> "None", ret |-> 0]
         ELSE [buf |-> b, err |-> "FBNoDataError", ret |-> 0]
    ELSE IF bit_length = None
    THEN load_from_stream_data(b, StreamRead(b, srcLen, None), None)
    ELSE load_from_stream_sized(b, srcLen,
                                uptobyte(Max(DATA_BUFFER_SIZE, bit_length[1])))

(* the loop of _concatenate_bits_in_range over the whole middle chunks *)
RECURSIVE MiddleChunks(_, _, _, _)
MiddleChunks(b, acc, i, stop_buffer) ==
    IF i >= stop_buffer THEN acc
    ELSE MiddleChunks(b, BytesAppend(acc, b.buffers[i]), i + 1, stop_buffer)

(* byte_result of _concatenate_bits_in_range *)
concatenate_bytes(b, start_buffer, stop_buffer, start_byte, stop_byte) ==
    IF start_buffer = stop_buffer
    THEN ChunkSlice(b.buffers[start_buffer], start_byte, stop_byte)
    ELSE IF start_buffer + 1 = stop_buffer
    THEN BytesConcat(ChunkFrom(b.buffers[start_buffer], start_byte),
                     ChunkUpTo(b.buffers[stop_buffer], stop_byte))
    ELSE BytesConcat(
            MiddleChunks(b, ChunkFrom(b.buffers[start_buffer], start_byte),
                         start_buffer + 1, stop_buffer),
            ChunkUpTo(b.buffers[stop_buffer], stop_byte))

(* _concatenate_bits_in_range once the two chunks are found; buffer       *)
(* indices are 1-based here, so start_buffer is bisect_right(...) and not *)
(* bisect_right(...) - 1                                                  *)
concatenate_bits_in_buffers(b, start, stop, start_buffer, stop_buffer) ==
    IF ~(start_buffer >= 1 /\ start_buffer <= Len(b.buffers))
    THEN [err |-> "AssertionError", val |-> NoVal]
    ELSE IF ~(stop_buffer >= 1 /\ stop_buffer <= Len(b.buffers))
    THEN [err |-> "IndexError", val |-> NoVal]
    ELSE BitwiseBytes(
            concatenate_bytes(b, start_buffer, stop_buffer,
                              downtobyte(start - b.bounds[start_buffer]),
                              uptobyte(stop - b.bounds[stop_buffer])),
            start % 8, (start % 8) + (stop - start))

(* _concatenate_bits_in_range(start, stop) -> [err, val] *)
concatenate_bits_in_range(b, start, stop) ==
    IF ~(stop > start /\ start >= 0)
    THEN [err |-> "AssertionError", val |-> NoVal]
    ELSE concatenate_bits_in_buffers(b, start, stop,
                                     bisect_right(b.bounds, start),
                                     bisect_left(b.bounds, stop))

(* the return of get_data: c is what _concatenate_bits_in_range gave *)
get_data_return(b, c, stop) ==
    [buf |-> b, err |-> c.err, val |-> c.val, stop |-> stop]

get_data_range(b, start, stop) ==
    get_data_return(b, concatenate_bits_in_range(b, start, stop), stop)

(* get_data once _load_from_stream has returned l *)
get_data_loaded(l, start, stop, bits_needed) ==
    IF l.err # "None"
    THEN [buf |-> l.buf, err |-> l.err, val |-> NoVal, stop |-> stop]
    ELSE IF l.ret < bits_needed
    THEN [buf |-> l.buf, err |-> "FBNoDataError", val |-> NoVal, stop |-> stop]
    ELSE get_data_range(l.buf, start, stop)

get_data_all(l, start) == get_data_range(l.buf, start, upper_bound(l.buf))

get_data_to_end(b, srcLen, start, bit_length) ==
    IF start < lower_bound(b)
    THEN [buf |-> b, err |-> "IndexError", val |-> NoVal, stop |-> start]
    ELSE get_data_all(load_from_stream(b, srcLen, None), start)

(* get_data(start, bit_length) -> [buf, err, val, stop] *)
get_data(b, srcLen, start, bit_length) ==
    IF start < lower_bound(b)
    THEN [buf |-> b, err |-> "IndexError", val |-> NoVal, stop |-> start]
    ELSE IF bit_length = None
    THEN get_data_all(load_from_stream(b, srcLen, None), start)
    ELSE IF bit_length[1] < 0
    THEN [buf |-> b, err |-> "IndexError", val |-> NoVal, stop |-> start]
    ELSE IF start + bit_length[1] > upper_bound(b)
    THEN get_data_loaded(
            load_from_stream(b, srcLen, Some(start + bit_length[1] - upper_bound(b))),
            start, start + bit_length[1], start + bit_length[1] - upper_bound(b))
    ELSE get_data_range(b, start, start + bit_length[1])

(* the while loop of trim *)
RECURSIVE TrimLoop(_, _)
TrimLoop(b, addr) ==
    IF Len(b.bounds) > 2 /\ addr >= b.bounds[2]
    THEN TrimLoop([b EXCEPT !.bounds = Tail(b.bounds), !.buffers = Tail(b.buffers)],
                  addr)
    ELSE b

(* a trim whose loop body runs once at most *)
trim_one_chunk(b, addr) ==
    IF ~(addr <= upper_bound(b)) THEN [buf |-> b, err |-> "AssertionError"]
    ELSE IF ~(Len(b.bounds) > 1) THEN [buf |-> b, err |-> "AssertionError"]
    ELSE IF Len(b.bounds) > 2 /\ addr >= b.bounds[2]
    THEN [buf |-> [b EXCEPT !.bounds = Tail(b.bounds), !.buffers = Tail(b.buffers)],
          err |-> "None"]
    ELSE [buf |-> b, err |-> "None"]

(* trim(addr) -> [buf, err] *)
trim(b, addr) ==
    IF ~(addr <= upper_bound(b)) THEN [buf |-> b, err |-> "AssertionError"]
    ELSE IF ~(Len(b.bounds) > 1) THEN [buf |-> b, err |-> "AssertionError"]
    ELSE [buf |-> TrimLoop(b, addr), err |-> "None"]

(* DataBuffer(src) for a byte array and for a stream of srcLen bytes *)
DataBuffer(kind, srcLen) ==
    IF kind = "bytes"
    THEN [bounds |-> <<0, srcLen * 8>>,
          buffers |-> <<[lo |-> 0, hi |-> srcLen]>>,
          stream_eof |-> TRUE, stream_pos |-> srcLen]
    ELSE load_from_stream([bounds |-> <<0>>, buffers |-> <<>>,
                           stream_eof |-> FALSE, stream_pos |-> 0],
                          srcLen, Some(DATA_BUFFER_SIZE)).buf

(***************************************************************************)
(* datasource.py: DataManager                                              *)
(*   A world w holds one hierarchy: w.buf the shared DataBuffer, w.mgr the *)
(*   sequence of DataManager objects (1 is the root, parent = 0 is None).  *)
(*   Methods return [w, err, val]: the world after the call, the exception *)
(*   the call raises ("None" when it returns) and the value returned.      *)
(***************************************************************************)
Ret(w, err, val) == [w |-> w, err |-> err, val |-> val]

IntVal(n) == [k |-> "int", lo |-> n, hi |-> 0, ok |-> TRUE]

EmptyBits == [k |-> "bits", lo |-> 0, hi |-> 0, ok |-> TRUE]

EmptyBytes == [k |-> "bytes", lo |-> 0, hi |-> 0, ok |-> TRUE]

fail_if_unsafe_ignoring_child(w, m) ==
    IF ~w.mgr[m].with_safe THEN "RuntimeError" ELSE "None"

fail_if_unsafe(w, m) ==
    IF w.mgr[m].has_child THEN "RuntimeError"
    ELSE IF ~w.mgr[m].with_safe THEN "RuntimeError"
    ELSE "None"

(* DataManager.__init__ with src a byte array or a stream *)
RootManager(addr_type, revertible) ==
    [with_safe |-> FALSE, has_child |-> FALSE, revertible |-> revertible,
     trim_safe |-> ~revertible, cursor |-> 0, parent |-> 0, base |-> 0,
     addr_type |-> IF addr_type = "PARENT" THEN "BYTE" ELSE addr_type,
     life |-> "new", born |-> 0]

(* __init__ that takes the parent's cursor as base whatever relative is *)
ChildManager_always_relative(w, m, relative, addr_type, revertible) ==
    LET src == w.mgr[m]
        child == [with_safe |-> FALSE, has_child |-> FALSE,
                  revertible |-> revertible,
                  trim_safe |-> src.trim_safe /\ ~revertible,
                  cursor |-> src.cursor, parent |-> m,
                  base |-> src.cursor,
                  addr_type |-> IF addr_type = "PARENT" THEN src.addr_type
                                ELSE addr_type,
                  life |-> "new", born |-> src.cursor]
        w1 == [w EXCEPT !.mgr[m].has_child = TRUE]
    IN  IF child.addr_type = "BYTE_STRICT" /\ child.cursor % 8 # 0
        THEN Ret(w1, "FBError", NoVal)
        ELSE IF src.addr_type # child.addr_type /\ ~relative
        THEN Ret(w1, "RuntimeError", NoVal)
        ELSE Ret([w1 EXCEPT !.mgr = Append(w1.mgr, child)], "None",
                 IntVal(Len(w.mgr) + 1))

(* DataManager.__init__ with src a DataManager: the parent is marked first, *)
(* the two checks that can reject the child come last                       *)
ChildManager(w, m, relative, addr_type, revertible) ==
    LET src == w.mgr[m]
        child == [with_safe |-> FALSE, has_child |-> FALSE,
                  revertible |-> revertible,
                  trim_safe |-> src.trim_safe /\ ~revertible,
                  cursor |-> src.cursor, parent |-> m,
                  base |-> IF relative THEN src.cursor ELSE src.base,
                  addr_type |-> IF addr_type = "PARENT" THEN src.addr_type
                                ELSE addr_type,
                  life |-> "new", born |-> src.cursor]
        w1 == [w EXCEPT !.mgr[m].has_child = TRUE]
    IN  IF child.addr_type = "BYTE_STRICT" /\ child.cursor % 8 # 0
        THEN Ret(w1, "FBError", NoVal)
        ELSE IF src.addr_type # child.addr_type /\ ~relative
        THEN Ret(w1, "RuntimeError", NoVal)
        ELSE Ret([w1 EXCEPT !.mgr = Append(w1.mgr, child)], "None",
                 IntVal(Len(w.mgr) + 1))

address(w, m) ==
    LET e == fail_if_unsafe(w, m)
    IN  IF e # "None" THEN Ret(w, e, NoVal)
        ELSE IF w.mgr[m].addr_type = "BYTE"
        THEN Ret(w, "None", IntVal((w.mgr[m].cursor - w.mgr[m].base) \div 8))
        ELSE Ret(w, "None", IntVal(w.mgr[m].cursor - w.mgr[m].base))

make_child(w, m, relative, addr_type, revertible) ==
    LET e == fail_if_unsafe(w, m)
    IN  IF e # "None" THEN Ret(w, e, NoVal)
        ELSE ChildManager(w, m, relative, addr_type, revertible)

(* the return of trim: t is what DataBuffer.trim gave *)
mgr_trim_return(w, t) == Ret([w EXCEPT !.buf = t.buf], t.err, NoVal)

(* _trim that does not look at _trim_safe *)
mgr_trim_always(w, m) ==
    IF fail_if_unsafe(w, m) # "None" THEN Ret(w, fail_if_unsafe(w, m), NoVal)
    ELSE mgr_trim_return(w, trim(w.buf, w.mgr[m].cursor))

mgr_trim(w, m) ==
    IF fail_if_unsafe(w, m) # "None" THEN Ret(w, fail_if_unsafe(w, m), NoVal)
    ELSE IF w.mgr[m].trim_safe
    THEN mgr_trim_return(w, trim(w.buf, w.mgr[m].cursor))
    ELSE Ret(w, "None", NoVal)

(* the return of read_bits: t is what trim gave, result the bits read *)
read_bits_return(t, result) ==
    IF t.err # "None" THEN t ELSE Ret(t.w, "None", result)

(* read_bits once get_data has returned g *)
read_bits_data(w, m, g) ==
    IF g.err # "None"
    THEN Ret([w EXCEPT !.buf = g.buf], g.err, NoVal)
    ELSE read_bits_return(
            mgr_trim([w EXCEPT !.buf = g.buf, !.mgr[m].cursor = g.stop], m),
            g.val)

read_bits_without_empty_read(w, srcLen, m, bit_length) ==
    IF fail_if_unsafe(w, m) # "None" THEN Ret(w, fail_if_unsafe(w, m), NoVal)
    ELSE read_bits_data(w, m,
                        get_data(w.buf, srcLen, w.mgr[m].cursor, bit_length))

read_bits(w, srcLen, m, bit_length) ==
    IF fail_if_unsafe(w, m) # "None" THEN Ret(w, fail_if_unsafe(w, m), NoVal)
    ELSE IF bit_length = Some(0) THEN Ret(w, "None", EmptyBits)
    ELSE read_bits_data(w, m,
                        get_data(w.buf, srcLen, w.mgr[m].cursor, bit_length))

(* bytes(r) of what read_bits returned *)
bytes_of(r) == IF r.err # "None" THEN r ELSE Ret(r.w, "None", ToBytes(r.val))

read_bytes(w, srcLen, m, byte_length) ==
    IF fail_if_unsafe(w, m) # "None" THEN Ret(w, fail_if_unsafe(w, m), NoVal)
    ELSE IF byte_length = Some(0) THEN Ret(w, "None", EmptyBytes)
    ELSE bytes_of(read_bits(w, srcLen, m,
                            IF byte_length = None THEN None
                            ELSE Some(byte_length[1] * 8)))

read(w, srcLen, m, length) ==
    IF fail_if_unsafe(w, m) # "None" THEN Ret(w, fail_if_unsafe(w, m), NoVal)
    ELSE IF w.mgr[m].addr_type = "BYTE" THEN read_bytes(w, srcLen, m, length)
    ELSE bytes_of(read_bits(w, srcLen, m, length))

enter(w, m) == [w EXCEPT !.mgr[m].with_safe = TRUE]

(* __exit__ that suppresses whatever is in flight *)
exit_suppressing_all(w, m, e_type) ==
    LET w1 == [w EXCEPT !.mgr[m].with_safe = FALSE]
        p == w.mgr[m].parent
    IN  IF p # 0 THEN Ret([w1 EXCEPT !.mgr[p].cursor = w.mgr[m].cursor,
                                      !.mgr[p].has_child = FALSE], "None", NoVal)
        ELSE Ret(w1, "None", NoVal)

(* __exit__ without the alignment check *)
exit_unaligned(w, m, e_type) ==
    LET w1 == [w EXCEPT !.mgr[m].with_safe = FALSE]
        p == w.mgr[m].parent
    IN  IF e_type = "None" /\ p # 0
        THEN Ret([w1 EXCEPT !.mgr[p].cursor = w.mgr[m].cursor,
                            !.mgr[p].has_child = FALSE], "None", NoVal)
        ELSE Ret(w1, e_type, NoVal)

(* __exit__ that hands the cursor to the parent when it reverts too *)
exit_reverting_with_cursor(w, m, e_type) ==
    IF w.mgr[m].parent # 0 /\ e_type \in FBErrors /\ w.mgr[m].revertible
    THEN Ret([w EXCEPT !.mgr[m].with_safe = FALSE,
                       !.mgr[w.mgr[m].parent].cursor = w.mgr[m].cursor,
                       !.mgr[w.mgr[m].parent].has_child = FALSE], "None", NoVal)
    ELSE exit_unaligned(w, m, e_type)

(* the return of __exit__ after the parent was trimmed *)
exit_return(t) == Ret(t.w, t.err, NoVal)

(* __exit__(e_type, ...): err is the exception that leaves __exit__ (the    *)
(* one it raises, or e_type re-raised); "None" when it returns True         *)
exit(w, m, e_type) ==
    LET w1 == [w EXCEPT !.mgr[m].with_safe = FALSE]
        me == w.mgr[m]
        p == w.mgr[m].parent
    IN  IF e_type = "None"
        THEN IF p # 0
             THEN IF w.mgr[p].addr_type = "BYTE" /\ (me.cursor - me.base) % 8 # 0
                  THEN Ret(w1, "RuntimeError", NoVal)
                  ELSE exit_return(
                          mgr_trim([w EXCEPT !.mgr[m].with_safe = FALSE,
                                             !.mgr[p].cursor = me.cursor,
                                             !.mgr[p].has_child = FALSE], p))
             ELSE Ret(w1, "None", NoVal)
        ELSE IF e_type \in FBErrors /\ me.revertible
        THEN IF p # 0
             THEN Ret([w1 EXCEPT !.mgr[p].has_child = FALSE], "None", NoVal)
             ELSE Ret(w1, "None", NoVal)
        ELSE Ret(w1, e_type, NoVal)

(***************************************************************************)
(* The caller of the DataManager API.                                      *)
(*   "All AddressManagers must be created in a with statement": a child is *)
(*   created and entered by `with m.make_child(...) as c:` (With), the     *)
(*   root by `with root:` (Enter), and the innermost with statement calls  *)
(*   __exit__ once, with the exception in flight (w.pending) or with None  *)
(*   (Exit).  Any method may be called on any manager at any time, and the *)
(*   caller may catch the exception in flight at any point.                *)
(*   world maps each input source of the run to its hierarchy: w.mgr is    *)
(*   the stack of managers whose with statement has not ended (the root    *)
(*   stays), w.reads counts the reads that moved a cursor, and w.last      *)
(*   tells how the last event went: how is "call" for a method call, a     *)
(*   raise or a catch, and for the end of a with statement "returned"      *)
(*   (__exit__ returned after a normal end), "reverted" (it swallowed the  *)
(*   exception in flight), "raised" (the exception in flight left it) or   *)
(*   "failed" (__exit__ itself raised), rev then telling whether the scope *)
(*   that ended was revertible.  Of a manager, life is "new", "entered" or *)
(*   the outcome of its __exit__, born the cursor it was created with.     *)
(***************************************************************************)
VARIABLES srcLen, world

vars == <<srcLen, world>>

AddrTypes == {"BIT", "BYTE", "BYTE_STRICT", "PARENT"}

SrcLens == {0, DATA_BUFFER_SIZE \div 8, DATA_BUFFER_SIZE \div 8 + 1}

BitLens == {None, Some(0), Some(1), Some(DATA_BUFFER_SIZE)}

ByteLens == {None, Some(0), Some(1)}

(* make_child(relative, addr_type, revertible) as the callers use it *)
ChildArgs == {<<TRUE, "PARENT", FALSE>>, <<TRUE, "PARENT", TRUE>>,
              <<TRUE, "BIT", FALSE>>, <<FALSE, "BIT", TRUE>>,
              <<TRUE, "BYTE_STRICT", FALSE>>, <<TRUE, "BYTE", FALSE>>}

ACall == [how |-> "call", rev |-> FALSE]

InitWorld(kind, len) ==
    [buf |-> DataBuffer(kind, len),
     mgr |-> <<RootManager("PARENT", FALSE)>>,
     pending |-> "None",
     last |-> ACall,
     reads |-> 0]

(* one source, a byte array or a stream *)
Init ==
    /\ srcLen \in SrcLens
    /\ \E kind \in Kinds : world = [k \in {kind} |-> InitWorld(k, srcLen)]

(* the same content as a byte array and as a stream *)
InitPair ==
    /\ srcLen \in SrcLens
    /\ world = [k \in Kinds |-> InitWorld(k, srcLen)]

Mgrs(w) == 1..Len(w.mgr)

(* what the caller sees of a hierarchy: the exception in flight, how the   *)
(* last event went, and the cursors                                        *)
Seen(w) ==
    [pending |-> w.pending, last |-> w.last,
     cursors |-> [m \in Mgrs(w) |-> w.mgr[m].cursor]]

(* the caller has seen no difference between the hierarchies *)
Agree == \A j, k \in DOMAIN world : Seen(world[j]) = Seen(world[k])

(* Every action below is one call made on every hierarchy in which it can *)
(* be made, for as long as the hierarchies agree.                         *)
Top(w) == Len(w.mgr)

InScope(w) == w.mgr[Top(w)].life = "entered"

Called(r) == [r.w EXCEPT !.last = ACall, !.pending = r.err]

CanCall(w, m) == w.pending = "None" /\ m \in Mgrs(w)

CanRead(w, m) == CanCall(w, m) /\ w.reads < MaxReads

CountRead(w0, m, w) ==
    IF w.mgr[m].cursor # w0.mgr[m].cursor THEN [w EXCEPT !.reads = w0.reads + 1]
    ELSE w

(* __enter__ on the child c that make_child returned, if it returned one *)
Entered(w1, c) ==
    IF w1.pending # "None" THEN w1
    ELSE [enter(w1, c) EXCEPT !.mgr[c].life = "entered"]

(* with m.make_child(...) as c: *)
DoWith(w, m, relative, addr_type, revertible) ==
    Entered(Called(make_child(w, m, relative, addr_type, revertible)),
            Len(w.mgr) + 1)

With(m, relative, addr_type, revertible) ==
    /\ Agree
    /\ \E k \in DOMAIN world : CanCall(world[k], m) /\ Len(world[k].mgr) < MaxMgrs
    /\ world' = [k \in DOMAIN world |->
                    IF CanCall(world[k], m) /\ Len(world[k].mgr) < MaxMgrs
                    THEN DoWith(world[k], m, relative, addr_type, revertible)
                    ELSE world[k]]
    /\ UNCHANGED srcLen

(* with root: *)
DoEnter(w) == [enter(w, 1) EXCEPT !.mgr[1].life = "entered", !.last = ACall]

Enter ==
    /\ Agree
    /\ \E k \in DOMAIN world : world[k].pending = "None" /\ world[k].mgr[1].life = "new"
    /\ world' = [k \in DOMAIN world |->
                    IF world[k].pending = "None" /\ world[k].mgr[1].life = "new"
                    THEN DoEnter(world[k])
                    ELSE world[k]]
    /\ UNCHANGED srcLen

(* how a with statement ended, from the exception that entered __exit__  *)
(* and the one that left it                                               *)
HowExited(e_type, err) ==
    IF err = "None"
    THEN IF e_type = "None" THEN "returned" ELSE "reverted"
    ELSE IF e_type = "None" THEN "failed" ELSE "raised"

(* the with statement of m has ended, __exit__ having returned r; a child *)
(* that has exited is dropped from w.mgr, the root stays                  *)
Exited(w, m, r) ==
    [r.w EXCEPT !.mgr = IF m = 1
                        THEN [r.w.mgr EXCEPT ![1].life = HowExited(w.pending, r.err)]
                        ELSE SubSeq(r.w.mgr, 1, m - 1),
                !.last = [how |-> HowExited(w.pending, r.err),
                          rev |-> w.mgr[m].revertible],
                !.pending = r.err]

(* the end of the innermost with statement *)
DoExit(w) == Exited(w, Top(w), exit(w, Top(w), w.pending))

Exit ==
    /\ Agree
    /\ \E k \in DOMAIN world : InScope(world[k])
    /\ world' = [k \in DOMAIN world |->
                    IF InScope(world[k])
                    THEN DoExit(world[k])
                    ELSE world[k]]
    /\ UNCHANGED srcLen

(* an exception nobody catches ends one with statement after the other *)
RECURSIVE Propagate(_)
Propagate(w) ==
    IF w.pending # "None" /\ InScope(w) THEN Propagate(DoExit(w)) ELSE w

ReadBits(m, n) ==
    /\ Agree
    /\ \E k \in DOMAIN world : CanRead(world[k], m)
    /\ world' = [k \in DOMAIN world |->
                    IF CanRead(world[k], m)
                    THEN CountRead(world[k], m, Called(read_bits(world[k], srcLen, m, n)))
                    ELSE world[k]]
    /\ UNCHANGED srcLen

ReadBytes(m, n) ==
    /\ Agree
    /\ \E k \in DOMAIN world : CanRead(world[k], m)
    /\ world' = [k \in DOMAIN world |->
                    IF CanRead(world[k], m)
                    THEN CountRead(world[k], m, Called(read_bytes(world[k], srcLen, m, n)))
                    ELSE world[k]]
    /\ UNCHANGED srcLen

Read(m, n) ==
    /\ Agree
    /\ \E k \in DOMAIN world : CanRead(world[k], m)
    /\ world' = [k \in DOMAIN world |->
                    IF CanRead(world[k], m)
                    THEN CountRead(world[k], m, Called(read(world[k], srcLen, m, n)))
                    ELSE world[k]]
    /\ UNCHANGED srcLen

Address(m) ==
    /\ Agree
    /\ \E k \in DOMAIN world : CanCall(world[k], m)
    /\ world' = [k \in DOMAIN world |->
                    IF CanCall(world[k], m)
                    THEN Called(address(world[k], m))
                    ELSE world[k]]
    /\ UNCHANGED srcLen

Trim(m) ==
    /\ Agree
    /\ \E k \in DOMAIN world : CanCall(world[k], m)
    /\ world' = [k \in DOMAIN world |->
                    IF CanCall(world[k], m)
                    THEN Called(mgr_trim(world[k], m))
                    ELSE world[k]]
    /\ UNCHANGED srcLen

(* the body of the innermost with statement raises e *)
Raise(e) ==
    /\ Agree
    /\ \E k \in DOMAIN world : world[k].pending = "None" /\ InScope(world[k])
    /\ world' = [k \in DOMAIN world |->
                    IF world[k].pending = "None" /\ InScope(world[k])
                    THEN [world[k] EXCEPT !.pending = e, !.last = ACall]
                    ELSE world[k]]
    /\ UNCHANGED srcLen

(* the caller catches the exception in flight *)
Catch ==
    /\ Agree
    /\ \E k \in DOMAIN world : world[k].pending # "None"
    /\ world' = [k \in DOMAIN world |->
                    IF world[k].pending # "None"
                    THEN [world[k] EXCEPT !.pending = "None", !.last = ACall]
                    ELSE world[k]]
    /\ UNCHANGED srcLen

AllMgrs == 1..MaxMgrs

Next ==
    \/ \E m \in AllMgrs, a \in ChildArgs : With(m, a[1], a[2], a[3])
    \/ Enter
    \/ Exit
    \/ \E m \in AllMgrs, n \in BitLens : ReadBits(m, n)
    \/ \E m \in AllMgrs, n \in ByteLens : ReadBytes(m, n)
    \/ \E m \in AllMgrs, n \in ByteLens : Read(m, n)
    \/ \E m \in AllMgrs : Address(m)
    \/ \E m \in AllMgrs : Trim(m)
    \/ Raise("FBError")
    \/ Catch

Spec == Init /\ [][Next]_vars

(* the same calls made on a byte array and on a stream of the same        *)
(* content, for as long as the caller has seen no difference               *)
SpecPair == InitPair /\ [][Next]_vars

(***************************************************************************)
(* core.py: Context                                                        *)
(*   A key is a string: base, followed by " " and a numeral when i >= 0.   *)
(*   base is <<label>>, <<backup_label, addr>> for backup_label + "_" +    *)
(*   hex(addr), <<"spacer", start>>, <<"spacer", start, stop>>, or <<>>    *)
(*   for the empty string.  form tells how the string is written: "plain"  *)
(*   is base + " " + str(i) (or base alone when i < 0), "padded" has a     *)
(*   zero before the digits of i ("a 01"), "bare" is the numeral alone     *)
(*   with no base and no space before it ("5").  A Context is the sequence *)
(*   of its maps, maps[0] first.  new_child shares the parent's maps:      *)
(*   while a Section runs, the enclosing Context is the tail of the        *)
(*   Section's.                                                            *)
(***************************************************************************)
Key(base) == [base |-> base, i |-> -1, form |-> "plain"]

(* base + " " + str(i) *)
Suffixed(base, i) == [base |-> base, i |-> i, form |-> "plain"]

EmptyMap == <<>>

NewContext == <<EmptyMap>>

InContext(ctx, key) == \E j \in 1..Len(ctx) : key \in DOMAIN ctx[j]

MapSet(map, key, value) ==
    [k \in DOMAIN map \cup {key} |-> IF k = key THEN value ELSE map[k]]

(* dict.update: the entries of src replace those of dst *)
MapUpdate(dst, src) ==
    [k \in DOMAIN dst \cup DOMAIN src |-> IF k \in DOMAIN src THEN src[k] ELSE dst[k]]

(* the while loop of __setitem__ *)
RECURSIVE FreeKey(_, _, _, _)
FreeKey(ctx, base, new_key, i) ==
    IF InContext(ctx, new_key)
    THEN FreeKey(ctx, base, Suffixed(base, i), i + 1)
    ELSE new_key

(* parts[-1].isnumeric(): then new_key = base + " " + str(int(parts[-1])) *)
Context_setitem(ctx, key, value) ==
    [ctx EXCEPT ![1] =
        MapSet(ctx[1],
               IF key.i >= 0
               THEN FreeKey(ctx, key.base, Suffixed(key.base, key.i), key.i)
               ELSE FreeKey(ctx, key.base, key, 1),
               value)]

(* update_ext -> [err, ctx] *)
update_ext(ctx) ==
    IF Len(ctx) = 1 THEN [err |-> "RuntimeError", ctx |-> ctx]
    ELSE [err |-> "None",
          ctx |-> [ctx EXCEPT ![2] = MapUpdate(ctx[2], ctx[1]), ![1] = EmptyMap]]

new_child(ctx) == <<EmptyMap>> \o ctx

(* dict(context): the first map that holds a key wins *)
RECURSIVE AsDict(_)
AsDict(ctx) ==
    IF ctx = <<>> THEN EmptyMap ELSE MapUpdate(AsDict(Tail(ctx)), ctx[1])

(***************************************************************************)
(* core.py: Parser, Block, Section, and the leaf parsers                   *)
(*   A parser is [type, label, address, relative, addr_type, optional,     *)
(*   elements]; labels here are strings without a space.                   *)
(***************************************************************************)
Leaf(type, label, addr) ==
    [type |-> type, label |-> label, address |-> addr, relative |-> TRUE,
     addr_type |-> "PARENT", optional |-> FALSE, elements |-> <<>>]

Block(elems, addr, addr_type) ==
    [type |-> "Block", label |-> None, address |-> addr, relative |-> TRUE,
     addr_type |-> addr_type, optional |-> FALSE, elements |-> elems]

Section(elems, addr, addr_type, optional) ==
    [type |-> "Section", label |-> None, address |-> addr, relative |-> TRUE,
     addr_type |-> addr_type, optional |-> optional, elements |-> elems]

Optional(elems, addr, addr_type) == Section(elems, addr, addr_type, TRUE)

backup_label(p) == IF p.type \in {"Block", "Section"} THEN p.type ELSE "Data"

spacer_label_as_range(start_addr, stop_addr) ==
    Key(<<"spacer", start_addr, stop_addr - 1>>)

spacer_label(start_addr, stop_addr) ==
    IF stop_addr - start_addr > 1
    THEN Key(<<"spacer", start_addr, stop_addr - 1>>)
    ELSE Key(<<"spacer", start_addr>>)

(* _spacer that reads to the address and stores nothing *)
spacer_store_nothing(ctx, label, r) ==
    IF r.err # "None" THEN [w |-> r.w, ctx |-> ctx, err |-> r.err]
    ELSE [w |-> r.w, ctx |-> ctx, err |-> "None"]

(* context[spacer_label] = r, r being what data.read(length) returned *)
spacer_store(ctx, label, r) ==
    IF r.err # "None" THEN [w |-> r.w, ctx |-> ctx, err |-> r.err]
    ELSE [w |-> r.w, ctx |-> Context_setitem(ctx, label, r.val), err |-> "None"]

(* _spacer from `length = stop_addr - start_addr` on *)
spacer_from(w, m, ctx, start_addr, stop_addr) ==
    IF stop_addr - start_addr = 0 THEN [w |-> w, ctx |-> ctx, err |-> "None"]
    ELSE spacer_store(ctx, spacer_label(start_addr, stop_addr),
                      read(w, srcLen, m, Some(stop_addr - start_addr)))

(* _spacer(data, context, stop_addr) -> [w, ctx, err] *)
spacer(w, m, ctx, stop_addr) ==
    IF address(w, m).err # "None"
    THEN [w |-> w, ctx |-> ctx, err |-> address(w, m).err]
    ELSE spacer_from(w, m, ctx, address(w, m).val.lo, stop_addr)

store_under_backup_label(p, ctx, data, addr) ==
    Context_setitem(ctx, Key(<<backup_label(p)>>), data)

(* _store(context, data, addr) *)
store(p, ctx, data, addr) ==
    LET label == IF p.label # None THEN Key(<<p.label[1]>>)
                 ELSE IF addr # None THEN Key(<<backup_label(p), addr[1]>>)
                 ELSE Key(<<backup_label(p)>>)
    IN  Context_setitem(ctx, label, data)

LeafTypes == {"Byte", "Bit", "Failure"}

(* bool(r) of what read_bits returned *)
bool_of(r) ==
    IF r.err # "None" THEN r ELSE Ret(r.w, "None", [r.val EXCEPT !.k = "bool"])

(* read of a leaf parser: Byte reads 1 byte, Bit reads 1 bit and gives a   *)
(* bool, Failure always raises FBError                                     *)
leaf_read(w, m, p) ==
    IF p.type = "Byte" THEN read_bytes(w, srcLen, m, Some(1))
    ELSE IF p.type = "Bit" THEN bool_of(read_bits(w, srcLen, m, Some(1)))
    ELSE Ret(w, "FBError", NoVal)

(***************************************************************************)
(* Parser.parse, step by step.                                             *)
(*   w.frames[j] is the activation that runs inside `with` of manager j:   *)
(*   frame 1 is parse() itself, with the root parser as its one element, a *)
(*   frame above is the read of a Block or Section (node).  A frame holds  *)
(*   the elements, the index i of the one being evaluated by               *)
(*   goto_addr_and_read, the phase of that call ("goto" before the spacer, *)
(*   "read" after it, addr being the address it recorded), the frame's     *)
(*   context ctx, and snap, the enclosing cursor and context when the      *)
(*   frame was made.  w.done tells whether parse is "running", has         *)
(*   "returned" w.out or has "raised" w.pending; w.snap is the snap of the *)
(*   last scope that reverted, w.cutrev whether the Section w.marked       *)
(*   reverted, w.cut the tree without it, w.spaced whether a spacer was    *)
(*   stored on the way to w.marked, and w.overrun whether a target address *)
(*   was found behind the cursor, "inside" an optional Section or          *)
(*   "outside" all of them, and w.starved whether a read of a leaf or of a *)
(*   spacer raised FBNoDataError, w.pre the cursor and the context when    *)
(*   goto_addr_and_read was called on w.marked.                            *)
(***************************************************************************)
Frame(elems, ctx, node, snap) ==
    [elements |-> elems, i |-> 1, phase |-> "goto", addr |-> 0, ctx |-> ctx,
     node |-> node, snap |-> snap]

NoSnap == [cursor |-> 0, ctx |-> <<>>]

InitParse(kind, len, tree, cut, marked) ==
    [buf |-> DataBuffer(kind, len),
     mgr |-> <<RootManager("PARENT", FALSE)>>,
     pending |-> "None", last |-> ACall, reads |-> 0,
     frames |-> <<Frame(<<tree>>, NewContext, tree, NoSnap)>>,
     out |-> None, done |-> "running", snap |-> NoSnap, cutrev |-> FALSE,
     cut |-> cut, marked |-> marked, spaced |-> FALSE, overrun |-> "no",
     starved |-> FALSE, pre |-> NoSnap]

TopFrame(w) == w.frames[Len(w.frames)]

Element(w) == TopFrame(w).elements[TopFrame(w).i]

Evaluating(w) ==
    /\ w.done = "running" /\ w.pending = "None" /\ InScope(w)
    /\ TopFrame(w).i <= Len(TopFrame(w).elements)

InOptional(w) == \E j \in 1..Len(w.frames) : w.frames[j].node.optional

(* with DataManager(src=data, addr_type=addr_type) as manager: *)
BeginG(w) == w.done = "running" /\ w.mgr[1].life = "new"

BeginD(w) == DoEnter(w)

(* goto_addr_and_read up to its call of read_and_translate *)
GotoG(w) == Evaluating(w) /\ TopFrame(w).phase = "goto"

(* whether the target address of the element lies behind the cursor *)
Behind(w) ==
    /\ Element(w).address # None
    /\ Element(w).address[1] < address(w, Top(w)).val.lo

(* w.overrun after this call of goto_addr_and_read *)
Overrun(w) ==
    IF ~Behind(w) THEN w.overrun
    ELSE IF InOptional(w) THEN "inside"
    ELSE "outside"

(* goto_addr_and_read once _spacer has returned s *)
Gone(w, t, s) ==
    IF s.err # "None"
    THEN [s.w EXCEPT !.pending = s.err, !.last = ACall, !.overrun = Overrun(w),
                     !.starved = w.starved \/ s.err = "FBNoDataError"]
    ELSE [s.w EXCEPT !.frames[t].ctx = s.ctx,
                     !.frames[t].addr = address(s.w, t).val.lo,
                     !.frames[t].phase = "read", !.last = ACall,
                     !.overrun = Overrun(w),
                     !.spaced = w.spaced \/ (Element(w) = w.marked
                                              /\ s.ctx # TopFrame(w).ctx),
                     !.pre = IF Element(w) = w.marked
                             THEN [cursor |-> w.mgr[t].cursor,
                                   ctx |-> TopFrame(w).ctx]
                             ELSE w.pre]

GotoD(w) ==
    IF Element(w).address # None
    THEN Gone(w, Top(w),
              spacer(w, Top(w), TopFrame(w).ctx, Element(w).address[1]))
    ELSE Gone(w, Top(w), [w |-> w, ctx |-> TopFrame(w).ctx, err |-> "None"])

(* the rest of goto_addr_and_read for a leaf: read, translate, _store *)
LeafG(w) ==
    Evaluating(w) /\ TopFrame(w).phase = "read" /\ Element(w).type \in LeafTypes

(* _store of what the read of the leaf returned *)
Stored(w, t, r) ==
    IF r.err # "None"
    THEN [r.w EXCEPT !.pending = r.err, !.last = ACall,
                     !.starved = w.starved \/ r.err = "FBNoDataError"]
    ELSE [r.w EXCEPT
            !.frames[t].ctx =
                store(Element(w), TopFrame(w).ctx, r.val, Some(TopFrame(w).addr)),
            !.frames[t].i = TopFrame(w).i + 1, !.frames[t].phase = "goto",
            !.last = ACall]

LeafD(w) == Stored(w, Top(w), leaf_read(w, Top(w), Element(w)))

(* Block.read / Section.read up to the loop over the elements *)
EnterG(w) ==
    Evaluating(w) /\ TopFrame(w).phase = "read" /\ Element(w).type \notin LeafTypes

(* out_context of Block.read and of Section.read *)
out_context(e, ctx) == IF e.type = "Block" THEN NewContext ELSE new_child(ctx)

(* __enter__ of the manager make_child returned, w1 being the world after *)
(* make_child, and the frame of the read that runs inside it              *)
Scoped(w, t, e, w1) ==
    IF w1.pending # "None" THEN w1
    ELSE [enter(w1, t + 1) EXCEPT
            !.mgr[t + 1].life = "entered",
            !.frames = Append(w.frames,
                Frame(e.elements, out_context(e, TopFrame(w).ctx), e,
                      [cursor |-> w.mgr[t].cursor, ctx |-> TopFrame(w).ctx]))]

EnterD(w) ==
    Scoped(w, Top(w), Element(w),
           Called(make_child(w, Top(w), Element(w).relative,
                             Element(w).addr_type, Element(w).optional)))

PopScope(w) ==
    [w EXCEPT !.mgr = SubSeq(w.mgr, 1, Top(w) - 1),
              !.frames = SubSeq(w.frames, 1, Len(w.frames) - 1)]

(* the element of the enclosing frame is done *)
NextElement(w) ==
    [w EXCEPT !.frames[Len(w.frames)].i = TopFrame(w).i + 1,
              !.frames[Len(w.frames)].phase = "goto"]

(* the return of Block.read / Section.read through __exit__, then the     *)
(* rest of goto_addr_and_read: _store of the dict, or update_ext          *)
ReturnG(w) ==
    /\ w.done = "running" /\ w.pending = "None" /\ InScope(w)
    /\ Top(w) >= 2 /\ TopFrame(w).i > Len(TopFrame(w).elements)

(* goto_addr_and_read that does not call update_ext on a Context *)
Updated_without_update_ext(w1, t, u, last) ==
    IF u.err # "None" THEN [w1 EXCEPT !.pending = u.err, !.last = last]
    ELSE NextElement([w1 EXCEPT !.last = last])

(* goto_addr_and_read after read_and_translate returned a Context *)
Updated(w1, t, u, last) ==
    IF u.err # "None" THEN [w1 EXCEPT !.pending = u.err, !.last = last]
    ELSE NextElement([w1 EXCEPT !.frames[t - 1].ctx = Tail(u.ctx), !.last = last])

(* the scope of frame f has ended and is dropped, __exit__ having returned *)
(* r; g is the enclosing frame                                             *)
Returned(w1, t, f, g, err, rev) ==
    IF err # "None"
    THEN [w1 EXCEPT !.pending = err, !.last = [how |-> "failed", rev |-> rev]]
    ELSE IF f.node.type = "Block"
    THEN NextElement(
           [w1 EXCEPT !.frames[t - 1].ctx =
                          store(f.node, g.ctx, AsDict(f.ctx), Some(g.addr)),
                      !.last = [how |-> "returned", rev |-> rev]])
    ELSE Updated(w1, t, update_ext(f.ctx), [how |-> "returned", rev |-> rev])

Popped(r) == [w |-> PopScope(r.w), err |-> r.err]

ReturnedFrom(w, t, p) ==
    Returned(p.w, t, TopFrame(w), w.frames[t - 1], p.err, w.mgr[t].revertible)

ReturnD(w) == ReturnedFrom(w, Top(w), Popped(exit(w, Top(w), "None")))

(* an exception leaves the innermost with statement: __exit__ swallows it *)
(* and read returns Reverted, or it goes on to the enclosing one; past    *)
(* the root's, parse raises it                                            *)
UnwindG(w) == w.done = "running" /\ w.pending # "None" /\ InScope(w)

(* the with statement of manager t has ended with an exception in flight, *)
(* __exit__ having returned r                                             *)
Unwound(w, t, r) ==
    IF t = 1
    THEN [r.w EXCEPT !.mgr[1].life = HowExited(w.pending, r.err),
                     !.pending = r.err,
                     !.done = IF r.err = "None" THEN "returned" ELSE "raised",
                     !.last = [how |-> HowExited(w.pending, r.err),
                               rev |-> w.mgr[t].revertible]]
    ELSE IF r.err = "None"
    THEN NextElement(
           [r.w EXCEPT
               !.pending = "None",
               !.last = [how |-> "reverted", rev |-> w.mgr[t].revertible],
               !.snap = TopFrame(w).snap,
               !.cutrev = w.cutrev \/ TopFrame(w).node = w.marked])
    ELSE [r.w EXCEPT !.pending = r.err,
                     !.last = [how |-> "raised", rev |-> w.mgr[t].revertible]]

UnwindD(w) ==
    IF Top(w) = 1 THEN Unwound(w, 1, exit(w, 1, w.pending))
    ELSE Unwound(w, Top(w), Popped(exit(w, Top(w), w.pending)))

(* return dict(context), through the root's __exit__ *)
FinishG(w) ==
    /\ w.done = "running" /\ w.pending = "None" /\ InScope(w)
    /\ Top(w) = 1 /\ TopFrame(w).i > Len(TopFrame(w).elements)

(* the root's with statement has ended, __exit__ having returned r *)
Finished(w, r) ==
    IF r.err # "None"
    THEN [r.w EXCEPT !.mgr[1].life = "failed", !.pending = r.err,
                     !.done = "raised",
                     !.last = [how |-> "failed", rev |-> FALSE]]
    ELSE [r.w EXCEPT !.mgr[1].life = "returned",
                     !.out = Some(AsDict(TopFrame(w).ctx)),
                     !.done = "returned",
                     !.last = [how |-> "returned", rev |-> FALSE]]

FinishD(w) == Finished(w, exit(w, 1, "None"))

PBegin ==
    /\ Agree
    /\ \E k \in DOMAIN world : BeginG(world[k])
    /\ world' = [k \in DOMAIN world |->
                    IF BeginG(world[k])
                    THEN BeginD(world[k])
                    ELSE world[k]]
    /\ UNCHANGED srcLen

PGoto ==
    /\ Agree
    /\ \E k \in DOMAIN world : GotoG(world[k])
    /\ world' = [k \in DOMAIN world |->
                    IF GotoG(world[k])
                    THEN GotoD(world[k])
                    ELSE world[k]]
    /\ UNCHANGED srcLen

PLeaf ==
    /\ Agree
    /\ \E k \in DOMAIN world : LeafG(world[k])
    /\ world' = [k \in DOMAIN world |->
                    IF LeafG(world[k])
                    THEN LeafD(world[k])
                    ELSE world[k]]
    /\ UNCHANGED srcLen

PEnter ==
    /\ Agree
    /\ \E k \in DOMAIN world : EnterG(world[k])
    /\ world' = [k \in DOMAIN world |->
                    IF EnterG(world[k])
                    THEN EnterD(world[k])
                    ELSE world[k]]
    /\ UNCHANGED srcLen

PReturn ==
    /\ Agree
    /\ \E k \in DOMAIN world : ReturnG(world[k])
    /\ world' = [k \in DOMAIN world |->
                    IF ReturnG(world[k])
                    THEN ReturnD(world[k])
                    ELSE world[k]]
    /\ UNCHANGED srcLen

PUnwind ==
    /\ Agree
    /\ \E k \in DOMAIN world : UnwindG(world[k])
    /\ world' = [k \in DOMAIN world |->
                    IF UnwindG(world[k])
                    THEN UnwindD(world[k])
                    ELSE world[k]]
    /\ UNCHANGED srcLen

PFinish ==
    /\ Agree
    /\ \E k \in DOMAIN world : FinishG(world[k])
    /\ world' = [k \in DOMAIN world |->
                    IF FinishG(world[k])
                    THEN FinishD(world[k])
                    ELSE world[k]]
    /\ UNCHANGED srcLen

(* parse run to its end *)
RECURSIVE Run(_)
Run(w) ==
    IF BeginG(w) THEN Run(BeginD(w))
    ELSE IF GotoG(w) THEN Run(GotoD(w))
    ELSE IF LeafG(w) THEN Run(LeafD(w))
    ELSE IF EnterG(w) THEN Run(EnterD(w))
    ELSE IF ReturnG(w) THEN Run(ReturnD(w))
    ELSE IF UnwindG(w) THEN Run(UnwindD(w))
    ELSE IF FinishG(w) THEN Run(FinishD(w))
    ELSE w

(* the parser trees: a root Block of an optional Section between leaves *)
ParseLens == {0, 1, 2, 3}

ByteA == Leaf("Byte", Some("a"), None)

ByteB == Leaf("Byte", Some("b"), None)

Fail == Leaf("Failure", None, None)

BodyElements ==
    {ByteA, Fail, Leaf("Bit", Some("b"), None),
     Leaf("Byte", Some("a"), Some(2)), Leaf("Byte", Some("b"), Some(0)),
     Block(<<ByteA>>, None, "PARENT"), Block(<<ByteA, Fail>>, None, "PARENT"),
     Block(<<Leaf("Bit", None, Some(2))>>, None, "BIT"),
     Section(<<ByteA>>, None, "PARENT", FALSE),
     Section(<<ByteA, Fail>>, None, "PARENT", FALSE),
     Optional(<<ByteB, Fail>>, None, "PARENT")}

Bodies == {<<e>> : e \in BodyElements}
          \cup {<<ByteA, e>> : e \in BodyElements}
          \cup {<<e, Fail>> : e \in BodyElements}

MarkedSections ==
    {Optional(b, a, "PARENT") : b \in Bodies, a \in {None, Some(0), Some(2)}}

Befores == {<<>>, <<ByteA>>}

Afters == {<<>>, <<ByteB>>, <<Leaf("Byte", None, Some(1))>>}

InitTree ==
    /\ srcLen \in ParseLens
    /\ \E kind \in Kinds, pre \in Befores, sec \in MarkedSections, post \in Afters :
          world = [k \in {kind} |->
                      InitParse(k, srcLen,
                                Block(pre \o <<sec>> \o post, None, "PARENT"),
                                Block(pre \o post, None, "PARENT"), sec)]

NextParse ==
    \/ PBegin
    \/ PGoto
    \/ PLeaf
    \/ PEnter
    \/ PReturn
    \/ PUnwind
    \/ PFinish

SpecParse == InitTree /\ [][NextParse]_vars

(***************************************************************************)
(* A caller of Context: inserts through a Context or through the parent    *)
(* it was made from, which shares its maps (ChainMap.new_child), and       *)
(* update_ext.  The inserted values are 1, 2, ... in the order of the      *)
(* inserts; clash tells that an insert was stored under a key some layer   *)
(* held at that moment, merged that update_ext was called.                 *)
(***************************************************************************)
CKeys ==
    {Key(<<"a">>), Suffixed(<<"a">>, 1),
     [base |-> <<"a">>, i |-> 1, form |-> "padded"],
     [base |-> <<>>, i |-> 5, form |-> "bare"]}

InitContext ==
    /\ srcLen = 0
    /\ world = [c \in {"context"} |->
                  [ctx |-> NewContext, n |-> 0, clash |-> FALSE, merged |-> FALSE]]

(* the Context whose maps[0] is layer j *)
View(ctx, j) == SubSeq(ctx, j, Len(ctx))

KeysOf(ctx) == UNION {DOMAIN ctx[j] : j \in 1..Len(ctx)}

(* the key the insert of value went under *)
StoredKey(view, value) == CHOOSE k \in DOMAIN view[1] : view[1][k] = value

Inserted(c, j, view) ==
    [c EXCEPT !.ctx = SubSeq(c.ctx, 1, j - 1) \o view,
              !.n = c.n + 1,
              !.clash = c.clash \/ StoredKey(view, c.n + 1) \in KeysOf(c.ctx)]

(* view[key] = n + 1, view being the Context of layer j *)
CSet ==
    /\ world.context.n < MaxInserts
    /\ \E j \in 1..Len(world.context.ctx), key \in CKeys :
          world' = [world EXCEPT !.context =
                      Inserted(world.context, j,
                               Context_setitem(View(world.context.ctx, j),
                                               key, world.context.n + 1))]
    /\ UNCHANGED srcLen

CNewChild ==
    /\ Len(world.context.ctx) < MaxLayers
    /\ world' = [world EXCEPT !.context.ctx = new_child(world.context.ctx)]
    /\ UNCHANGED srcLen

CUpdateExt ==
    /\ Len(world.context.ctx) > 1
    /\ world' = [world EXCEPT !.context.ctx = update_ext(world.context.ctx).ctx,
                              !.context.merged = TRUE]
    /\ UNCHANGED srcLen

NextContext ==
    \/ CSet
    \/ CNewChild
    \/ CUpdateExt

SpecContext == InitContext /\ [][NextContext]_vars

(***************************************************************************)
(* A caller of DataBuffer: world.buffer.buf is the buffer at hand, made    *)
(* from a byte array or a stream of srcLen bytes; the caller calls         *)
(* get_data and trim.  The other fields record the last call: the buffer   *)
(* before it, its address, the exception it raised and what it asked of    *)
(* the stream.                                                             *)
(***************************************************************************)
NoRead == [read |-> FALSE, bits |-> None, size |-> None]

(* a _load_from_stream that asks for bit_length and no more *)
load_from_stream_read_exact(b, bit_length) ==
    IF b.stream_eof THEN NoRead
    ELSE IF bit_length = None
    THEN [read |-> TRUE, bits |-> None, size |-> None]
    ELSE [read |-> TRUE, bits |-> bit_length, size |-> Some(uptobyte(bit_length[1]))]

(* _load_from_stream(bit_length): the call of self._stream.read it makes,  *)
(* size None for read() without a size                                     *)
load_from_stream_read(b, bit_length) ==
    IF b.stream_eof THEN NoRead
    ELSE IF bit_length = None
    THEN [read |-> TRUE, bits |-> None, size |-> None]
    ELSE [read |-> TRUE, bits |-> bit_length,
          size |-> Some(uptobyte(Max(DATA_BUFFER_SIZE, bit_length[1])))]

(* get_data(start, bit_length): the call of _load_from_stream it makes *)
get_data_read(b, start, bit_length) ==
    IF start < lower_bound(b) THEN NoRead
    ELSE IF bit_length = None THEN load_from_stream_read(b, None)
    ELSE IF bit_length[1] < 0 THEN NoRead
    ELSE IF start + bit_length[1] > upper_bound(b)
    THEN load_from_stream_read(b, Some(start + bit_length[1] - upper_bound(b)))
    ELSE NoRead

(* DataBuffer(src): the call of _load_from_stream of the constructor *)
DataBuffer_read(kind) ==
    IF kind = "bytes" THEN NoRead
    ELSE load_from_stream_read([bounds |-> <<0>>, buffers |-> <<>>,
                                stream_eof |-> FALSE, stream_pos |-> 0],
                               Some(DATA_BUFFER_SIZE))

BufLens == {0, 1, DATA_BUFFER_SIZE \div 8, DATA_BUFFER_SIZE \div 8 + 1,
            2 * (DATA_BUFFER_SIZE \div 8) + 1, 3 * (DATA_BUFFER_SIZE \div 8) + 1}

Marks(b) == {0, 8} \cup {b.bounds[i] : i \in DOMAIN b.bounds}
                   \cup {b.bounds[i] - 1 : i \in DOMAIN b.bounds}

GetStarts(b) == {a \in Marks(b) : a >= 0}

GetLens == {None, Some(-1), Some(0), Some(1), Some(DATA_BUFFER_SIZE),
            Some(DATA_BUFFER_SIZE + 8), Some(2 * DATA_BUFFER_SIZE + 8)}

TrimAddrs(b) == {a \in Marks(b) : a >= 0} \cup {upper_bound(b) + 1}

Made(kind, len) ==
    [buf |-> DataBuffer(kind, len),
     before |-> DataBuffer(kind, len),
     op |-> "init", addr |-> 0, err |-> "None",
     asked |-> DataBuffer_read(kind)]

InitBuffer ==
    /\ srcLen \in BufLens
    /\ \E kind \in Kinds : world = [b \in {"buffer"} |-> Made(kind, srcLen)]

Got(x, start, g, asked) ==
    [buf |-> g.buf, before |-> x.buf, op |-> "get_data", addr |-> start,
     err |-> g.err, asked |-> asked]

(* get_data(start, bit_length) *)
BGet ==
    /\ \E start \in GetStarts(world.buffer.buf) : \E bit_length \in GetLens :
          world' = [world EXCEPT !.buffer =
                      Got(world.buffer, start,
                          get_data(world.buffer.buf, srcLen, start, bit_length),
                          get_data_read(world.buffer.buf, start, bit_length))]
    /\ UNCHANGED srcLen

Trimmed(x, addr, t) ==
    [buf |-> t.buf, before |-> x.buf, op |-> "trim", addr |-> addr,
     err |-> t.err, asked |-> NoRead]

(* trim(addr) *)
BTrim ==
    /\ \E addr \in TrimAddrs(world.buffer.buf) :
          world' = [world EXCEPT !.buffer =
                      Trimmed(world.buffer, addr, trim(world.buffer.buf, addr))]
    /\ UNCHANGED srcLen

NextBuffer ==
    \/ BGet
    \/ BTrim

SpecBuffer == InitBuffer /\ [][NextBuffer]_vars

(***************************************************************************)
(* A caller of BitwiseBytes: world.bits.self is the object at hand, made   *)
(* from bytes, by a slice or from another object.                          *)
(***************************************************************************)
Datas == {<<165>>, <<255, 15>>, <<15, 255>>, <<0, 255>>, <<255, 0, 129>>}

(* the ranges start .. stop within length bits *)
Ranges(length) == {r \in (0..length) \X (0..length) : r[1] <= r[2]}

InitBits ==
    /\ srcLen = 0
    /\ \E data \in Datas :
          world = [b \in {"bits"} |->
                      [self |-> BitwiseBytes_of_bytes(data, 0, None)[1],
                       how |-> "bytes"]]

(* BitwiseBytes(data, start_bit, stop_bit) *)
BNew ==
    /\ \E data \in Datas : \E r \in Ranges(8 * Len(data)) :
          world' = [world EXCEPT !.bits =
                      [self |-> BitwiseBytes_of_bytes(data, r[1], Some(r[2]))[1],
                       how |-> "bytes"]]
    /\ UNCHANGED srcLen

(* self[start:stop] *)
BSlice ==
    /\ \E r \in Ranges(world.bits.self.length) :
          world' = [world EXCEPT !.bits =
                      [self |-> BitwiseBytes_slice(world.bits.self, r[1], r[2])[1],
                       how |-> "slice"]]
    /\ UNCHANGED srcLen

(* BitwiseBytes(self, start_bit, stop_bit) *)
BCopy ==
    /\ \E r \in Ranges(world.bits.self.length) :
          world' = [world EXCEPT !.bits =
                      [self |-> BitwiseBytes_of_bits(world.bits.self,
                                                     r[1], Some(r[2]))[1],
                       how |-> "copy"]]
    /\ UNCHANGED srcLen

NextBits ==
    \/ BNew
    \/ BSlice
    \/ BCopy

SpecBits == InitBits /\ [][NextBits]_vars

(***************************************************************************)
(* core.py: Repeat and Array.                                              *)
(*   A Modifier wraps one parser and takes its label, address and backup   *)
(*   label, so what it stores is stored under the names of that parser.    *)
(*   repeat_qty is Qty(n), an int, or QtyKey(key), a str.  What a read     *)
(*   returns is a value of the data, Reverted, ContextResult(ctx) for a    *)
(*   Context, DictResult(d) for a dict or ListResult(items) for a list;    *)
(*   NoResult stands where the read raised (w.pending).  The parsers that  *)
(*   are wrapped here have no address, and neither have their elements.    *)
(***************************************************************************)
Qty(n) == [int |-> TRUE, n |-> n, key |-> ""]

QtyKey(key) == [int |-> FALSE, n |-> 0, key |-> key]

NoResult == [k |-> "none"]

Reverted == [k |-> "reverted"]

ContextResult(ctx) == [k |-> "context", ctx |-> ctx]

DictResult(d) == [k |-> "dict", d |-> d]

ListResult(items) == [k |-> "list", items |-> items]

(* validate_address_or_length(repeat_qty, amin) of the constructors *)
validate_repeat_qty(repeat_qty, amin) ==
    IF ~repeat_qty.int THEN "TypeError"
    ELSE IF repeat_qty.n < amin THEN "IndexError"
    ELSE "None"

(* Repeat(parser, repeat_qty): err is what __init__ raised *)
Repeat(parser, repeat_qty) ==
    [type |-> "Repeat", parser |-> parser, repeat_qty |-> repeat_qty,
     err |-> validate_repeat_qty(repeat_qty, 1)]

(* Array(parser, repeat_qty) *)
Array(parser, repeat_qty) ==
    [type |-> "Array", parser |-> parser, repeat_qty |-> repeat_qty,
     err |-> validate_repeat_qty(repeat_qty, 0)]

(* get_from_contexts(contexts, key) with key a str -> [err, val] *)
get_from_contexts(ctx, key) ==
    IF Key(<<key>>) \in DOMAIN AsDict(ctx)
    THEN [err |-> "None", val |-> AsDict(ctx)[Key(<<key>>)]]
    ELSE [err |-> "KeyError", val |-> NoVal]

(* the head of Repeat.read and of Array.read: reps -> [err, val] *)
repeat_reps(ctx, repeat_qty) ==
    IF ~repeat_qty.int /\ get_from_contexts(ctx, repeat_qty.key).err # "None"
    THEN [err |-> get_from_contexts(ctx, repeat_qty.key).err, val |-> 0]
    ELSE IF repeat_qty.int THEN [err |-> "None", val |-> repeat_qty.n]
    ELSE [err |-> "ValueError", val |-> 0]

(* goto_addr_and_read of a leaf from `addr = data.address` on -> [w, ctx] *)
leaf_stored(e, ctx, addr, r) ==
    IF r.err # "None" THEN [w |-> Called(r), ctx |-> ctx]
    ELSE [w |-> Called(r), ctx |-> store(e, ctx, r.val, Some(addr))]

leaf_goto_addr_and_read(w, ctx, e) ==
    leaf_stored(e, ctx, address(w, Top(w)).val.lo, leaf_read(w, Top(w), e))

(* for element in self._elements: element.goto_addr_and_read(new_data, ...) *)
RECURSIVE elements_read(_, _, _)
RECURSIVE elements_next(_, _)
elements_read(w, ctx, elements) ==
    IF elements = <<>> \/ w.pending # "None" THEN [w |-> w, ctx |-> ctx]
    ELSE elements_next(leaf_goto_addr_and_read(w, ctx, Head(elements)),
                       Tail(elements))

elements_next(s, rest) == elements_read(s.w, s.ctx, rest)

(* the end of the with statement of a read: s is how its body ended, w2   *)
(* the state after __exit__, result what the body returns                 *)
with_ended(s, w2, result) ==
    IF w2.pending # "None" THEN [w |-> w2, res |-> NoResult]
    ELSE IF s.w.pending # "None" THEN [w |-> w2, res |-> Reverted]
    ELSE [w |-> w2, res |-> result]

Section_return(s) == with_ended(s, DoExit(s.w), ContextResult(s.ctx))

Section_entered(w1, ctx, p) ==
    IF w1.pending # "None" THEN [w |-> w1, res |-> NoResult]
    ELSE Section_return(elements_read(w1, new_child(ctx), p.elements))

(* Section.read(data, contexts) on the innermost manager -> [w, res] *)
Section_read(w, ctx, p) ==
    Section_entered(DoWith(w, Top(w), p.relative, p.addr_type, p.optional),
                    ctx, p)

Block_return(s) == with_ended(s, DoExit(s.w), DictResult(AsDict(s.ctx)))

Block_entered(w1, p) ==
    IF w1.pending # "None" THEN [w |-> w1, res |-> NoResult]
    ELSE Block_return(elements_read(w1, NewContext, p.elements))

(* Block.read(data, contexts) *)
Block_read(w, p) ==
    Block_entered(DoWith(w, Top(w), p.relative, p.addr_type, FALSE), p)

leaf_result(r) ==
    [w |-> Called(r), res |-> IF r.err # "None" THEN NoResult ELSE r.val]

(* read_and_translate(data, contexts), translate being the identity *)
read_and_translate(w, ctx, p) ==
    IF p.type = "Section" THEN Section_read(w, ctx, p)
    ELSE IF p.type = "Block" THEN Block_read(w, p)
    ELSE leaf_result(leaf_read(w, Top(w), p))

(***************************************************************************)
(* parse of a Repeat or an Array, step by step.                            *)
(*   w.parser is the Repeat or Array, w.ctx the context of parse and,      *)
(*   once Repeat.read has begun, `results` (its child), w.reps the number  *)
(*   of repetitions once read has found it, w.results the list of Array,   *)
(*   w.addr the address goto_addr_and_read recorded, and w.spans, for each *)
(*   iteration that ended, the cursor of `data` before and after it and    *)
(*   whether it reverted.                                                  *)
(***************************************************************************)
InitArray(kind, len, parser) ==
    [buf |-> DataBuffer(kind, len),
     mgr |-> <<RootManager("PARENT", FALSE)>>,
     pending |-> parser.err, last |-> ACall, reads |-> 0,
     parser |-> parser, ctx |-> NewContext, reps |-> None, results |-> <<>>,
     addr |-> 0, spans |-> <<>>, out |-> None,
     done |-> IF parser.err = "None" THEN "running" ELSE "raised"]

(* with DataManager(src=data, ...) as manager, and goto_addr_and_read up   *)
(* to its call of read_and_translate                                       *)
ABeginG(w) == w.done = "running" /\ w.mgr[1].life = "new"

ABeginD(w) == [DoEnter(w) EXCEPT !.addr = address(enter(w, 1), 1).val.lo]

(* Repeat.read and Array.read up to the loop *)
AResolveG(w) ==
    /\ w.done = "running" /\ w.pending = "None" /\ InScope(w)
    /\ w.reps = None

Resolved(w, reps) ==
    IF reps.err # "None" THEN [w EXCEPT !.pending = reps.err]
    ELSE [w EXCEPT !.reps = Some(reps.val),
                   !.ctx = IF w.parser.type = "Repeat" THEN new_child(w.ctx)
                           ELSE w.ctx]

AResolveD(w) == Resolved(w, repeat_reps(w.ctx, w.parser.repeat_qty))

(* one pass of the loop *)
AIterateG(w) ==
    /\ w.done = "running" /\ w.pending = "None" /\ InScope(w)
    /\ w.reps # None /\ Len(w.spans) < w.reps[1]

Span(w, w2, res) ==
    [from |-> w.mgr[1].cursor, to |-> w2.mgr[1].cursor,
     reverted |-> res.k = "reverted"]

(* the with statement of the pass has ended in w2 *)
Iterated(w, w2, res) ==
    IF w2.pending # "None" THEN w2
    ELSE [w2 EXCEPT !.spans = Append(w.spans, Span(w, w2, res))]

(* what Array appends for a result *)
Array_entry(res) ==
    IF res.k = "reverted" THEN ListResult(<<>>)
    ELSE IF res.k = "context" THEN DictResult(AsDict(res.ctx))
    ELSE res

Array_appended_unless_reverted(w, r) ==
    IF r.w.pending # "None" THEN DoExit(r.w)
    ELSE IF r.res.k = "reverted" THEN Iterated(w, DoExit(r.w), r.res)
    ELSE Iterated(w, DoExit([r.w EXCEPT !.results =
                                Append(w.results, Array_entry(r.res))]),
                  r.res)

Array_appended(w, r) ==
    IF r.w.pending # "None" THEN DoExit(r.w)
    ELSE Iterated(w, DoExit([r.w EXCEPT !.results =
                                Append(w.results, Array_entry(r.res))]),
                  r.res)

Array_pass(w, w1) ==
    IF w1.pending # "None" THEN w1
    ELSE Array_appended(w, read_and_translate(w1, NewContext, w.parser.parser))

(* what a pass of Repeat leaves in `results` *)
Repeat_results(w, res, addr) ==
    IF res.k = "reverted" THEN w.ctx
    ELSE IF res.k = "context"
    THEN <<w.ctx[1]>> \o Tail(update_ext(res.ctx).ctx)
    ELSE Tail(update_ext(store(w.parser.parser, new_child(w.ctx), res,
                               Some(addr))).ctx)

Repeat_stored(w, r, addr) ==
    IF r.w.pending # "None" THEN DoExit(r.w)
    ELSE Iterated(w, DoExit([r.w EXCEPT !.ctx = Repeat_results(w, r.res, addr)]),
                  r.res)

Repeat_pass(w, w1) ==
    IF w1.pending # "None" THEN w1
    ELSE Repeat_stored(w, read_and_translate(w1, Tail(w.ctx), w.parser.parser),
                       address(w1, Top(w1)).val.lo)

AIterateD(w) ==
    IF w.parser.type = "Array"
    THEN Array_pass(w, DoWith(w, Top(w), TRUE, "PARENT", FALSE))
    ELSE Repeat_pass(w, DoWith(w, Top(w), TRUE, "PARENT", FALSE))

(* the loop is over: read returns, goto_addr_and_read stores what it       *)
(* returned, and the with statement of parse ends                          *)
AReturnG(w) ==
    /\ w.done = "running" /\ w.pending = "None" /\ InScope(w)
    /\ w.reps # None /\ Len(w.spans) = w.reps[1]

Returned_ctx(w) ==
    IF w.parser.type = "Array"
    THEN store(w.parser.parser, w.ctx, ListResult(w.results), Some(w.addr))
    ELSE Tail(update_ext(w.ctx).ctx)

AReturned(w, ctx, r) ==
    IF r.err # "None"
    THEN [r.w EXCEPT !.mgr[1].life = "failed", !.pending = r.err,
                     !.done = "raised",
                     !.last = [how |-> "failed", rev |-> FALSE]]
    ELSE [r.w EXCEPT !.mgr[1].life = "returned", !.ctx = ctx,
                     !.out = Some(AsDict(ctx)), !.done = "returned",
                     !.last = [how |-> "returned", rev |-> FALSE]]

AReturnD(w) == AReturned(w, Returned_ctx(w), exit(w, 1, "None"))

(* an exception leaves read, and the with statement of parse with it *)
ARaiseG(w) == w.done = "running" /\ w.pending # "None" /\ InScope(w)

ARaiseD(w) == [DoExit(w) EXCEPT !.done = "raised"]

ABegin ==
    /\ Agree
    /\ \E k \in DOMAIN world : ABeginG(world[k])
    /\ world' = [k \in DOMAIN world |->
                    IF ABeginG(world[k])
                    THEN ABeginD(world[k])
                    ELSE world[k]]
    /\ UNCHANGED srcLen

AResolve ==
    /\ Agree
    /\ \E k \in DOMAIN world : AResolveG(world[k])
    /\ world' = [k \in DOMAIN world |->
                    IF AResolveG(world[k])
                    THEN AResolveD(world[k])
                    ELSE world[k]]
    /\ UNCHANGED srcLen

AIterate ==
    /\ Agree
    /\ \E k \in DOMAIN world : AIterateG(world[k])
    /\ world' = [k \in DOMAIN world |->
                    IF AIterateG(world[k])
                    THEN AIterateD(world[k])
                    ELSE world[k]]
    /\ UNCHANGED srcLen

AReturn ==
    /\ Agree
    /\ \E k \in DOMAIN world : AReturnG(world[k])
    /\ world' = [k \in DOMAIN world |->
                    IF AReturnG(world[k])
                    THEN AReturnD(world[k])
                    ELSE world[k]]
    /\ UNCHANGED srcLen

ARaise ==
    /\ Agree
    /\ \E k \in DOMAIN world : ARaiseG(world[k])
    /\ world' = [k \in DOMAIN world |->
                    IF ARaiseG(world[k])
                    THEN ARaiseD(world[k])
                    ELSE world[k]]
    /\ UNCHANGED srcLen

MaxQty == 3

ArrayLens == 0..3

Quantities == {Qty(n) : n \in 0..MaxQty} \cup {QtyKey("n")}

Wrapped ==
    {Leaf("Byte", Some("x"), None), Leaf("Byte", None, None),
     Leaf("Bit", Some("x"), None), Leaf("Failure", None, None),
     Block(<<Leaf("Byte", Some("a"), None)>>, None, "PARENT"),
     Block(<<Leaf("Bit", Some("a"), None)>>, None, "BIT"),
     Section(<<Leaf("Byte", Some("a"), None)>>, None, "PARENT", FALSE),
     Optional(<<Leaf("Byte", Some("a"), None)>>, None, "PARENT"),
     Optional(<<Leaf("Byte", Some("a"), None), Leaf("Failure", None, None)>>,
              None, "PARENT"),
     Optional(<<Leaf("Byte", Some("a"), None), Leaf("Byte", Some("b"), None)>>,
              None, "PARENT")}

Modifiers ==
    {Repeat(p, q) : p \in Wrapped, q \in Quantities}
        \cup {Array(p, q) : p \in Wrapped, q \in Quantities}

InitModifier ==
    /\ srcLen \in ArrayLens
    /\ \E kind \in Kinds, parser \in Modifiers :
          world = [k \in {kind} |-> InitArray(k, srcLen, parser)]

NextArray ==
    \/ ABegin
    \/ AResolve
    \/ AIterate
    \/ AReturn
    \/ ARaise

SpecArray == InitModifier /\ [][NextArray]_vars

(***************************************************************************)
(* Properties of the DataManager scopes                                    *)
(***************************************************************************)
Worlds == {world[k] : k \in DOMAIN world}

HasLiveChild(w, m) == \E c \in Mgrs(w) : w.mgr[c].parent = m

Usable(w, m) == w.mgr[m].life = "entered" /\ ~HasLiveChild(w, m)

(* what each public operation on manager m would do now *)
PublicCalls(w, m) ==
    {address(w, m), mgr_trim(w, m)}
    \cup {make_child(w, m, a[1], a[2], a[3]) : a \in ChildArgs}
    \cup {read_bits(w, srcLen, m, n) : n \in BitLens}
    \cup {read_bytes(w, srcLen, m, n) : n \in ByteLens}
    \cup {read(w, srcLen, m, n) : n \in ByteLens}

(* C1: on a manager that has a live child or is not inside its entered     *)
(* scope, each of address, make_child, read, read_bits, read_bytes and     *)
(* _trim raises RuntimeError and leaves every cursor and the shared buffer *)
(* as they were.                                                           *)
C1_GuardRejects ==
    \A w \in Worlds : \A m \in Mgrs(w) :
        ~Usable(w, m) =>
            \A r \in PublicCalls(w, m) :
                /\ r.err = "RuntimeError"
                /\ r.w.buf = w.buf
                /\ \A c \in Mgrs(w) : r.w.mgr[c].cursor = w.mgr[c].cursor

(* a call on a parent whose child is in its with statement was rejected *)
C1_Witness ==
    \E w \in Worlds :
        /\ w.pending = "RuntimeError" /\ w.last.how = "call"
        /\ Len(w.mgr) >= 2 /\ InScope(w)
        /\ ~w.mgr[Top(w)].has_child

ExitOutcomes == {"returned", "reverted", "raised", "failed"}

NonFBErrors == {"RuntimeError", "AssertionError", "IndexError", "ValueError"}

(* a child is in its with statement *)
ChildInScope(w) == Top(w) >= 2 /\ InScope(w)

(* C3: after every end of a child's with statement (normal, reverted, or  *)
(* with the failure propagated further) the parent's has-child guard is   *)
(* cleared and the parent is usable again.                                *)
C3_ParentReactivated ==
    \A w \in Worlds :
        w.last.how \in ExitOutcomes /\ InScope(w) =>
            /\ ~w.mgr[Top(w)].has_child
            /\ fail_if_unsafe(w, Top(w)) = "None"

(* C4: a normal end of a child's with statement sets the parent's cursor  *)
(* to the child's cursor; a revert by a revertible child leaves the       *)
(* parent's cursor at the value it had when the child was created.        *)
C4_CursorOnExit ==
    \A w \in Worlds :
        ChildInScope(w) =>
            LET c == w.mgr[Top(w)]
                ok == exit(w, Top(w), "None")
            IN  /\ ok.err = "None" => ok.w.mgr[c.parent].cursor = c.cursor
                /\ \A e \in FBErrors :
                      LET r == exit(w, Top(w), e)
                      IN  c.revertible =>
                            /\ r.err = "None"
                            /\ r.w.mgr[c.parent].cursor = c.born

(* a revertible child reverted after a read inside it moved a cursor *)
C4_Witness ==
    \E w \in Worlds :
        /\ w.last = [how |-> "reverted", rev |-> TRUE]
        /\ Top(w) = 1 /\ InScope(w)
        /\ w.reads > 0 /\ w.mgr[1].cursor = 0

Raised(w, e) == Propagate([w EXCEPT !.pending = e])

Revertibles(w) == {m \in Mgrs(w) : w.mgr[m].revertible}

Innermost(S) == CHOOSE m \in S : \A n \in S : n <= m

(* C5: an FBError raised in the innermost with statement is swallowed by  *)
(* the innermost revertible scope around it, the scopes outside that one  *)
(* stay entered and the one just outside is usable; with no revertible    *)
(* scope around it the FBError leaves the root's with statement.          *)
C5_InnermostRevertible ==
    \A w \in Worlds :
        w.pending = "None" /\ InScope(w) =>
            \A e \in FBErrors :
                LET r == Raised(w, e)
                    R == Revertibles(w)
                IN  IF R = {}
                    THEN /\ r.pending = e
                         /\ Top(r) = 1 /\ r.mgr[1].life = "raised"
                    ELSE LET i == Innermost(R)
                         IN  /\ r.pending = "None"
                             /\ r.last = [how |-> "reverted", rev |-> TRUE]
                             /\ Top(r) = i - 1
                             /\ \A m \in Mgrs(r) :
                                   /\ r.mgr[m].life = "entered"
                                   /\ r.mgr[m].cursor = w.mgr[m].cursor
                             /\ fail_if_unsafe(r, Top(r)) = "None"

(* an FBError was swallowed by a revertible scope whose cursor had moved,  *)
(* and the scope around it goes on from where it was                      *)
C5_Witness ==
    \E w \in Worlds :
        /\ w.last = [how |-> "reverted", rev |-> TRUE]
        /\ w.pending = "None" /\ InScope(w)
        /\ w.mgr[Top(w)].cursor = 0 /\ w.reads > 0

(* C7: an exception that is not an FBError, raised in the innermost with  *)
(* statement, leaves every with statement around it, revertible or not.   *)
C7_NonFBErrorPropagates ==
    \A w \in Worlds :
        w.pending = "None" /\ InScope(w) =>
            \A e \in NonFBErrors :
                LET r == Raised(w, e)
                IN  /\ r.pending = e
                    /\ Top(r) = 1 /\ r.mgr[1].life = "raised"

(* an exception that is not an FBError has left a revertible scope *)
C7_Witness ==
    \E w \in Worlds :
        /\ w.last = [how |-> "raised", rev |-> TRUE]
        /\ w.pending \in NonFBErrors

(* C8: under a parent in BYTE mode a child's with statement ends normally *)
(* only when (cursor - base) % 8 = 0; otherwise __exit__ raises           *)
(* RuntimeError and the parent's cursor stays.                            *)
C8_ByteParentAlignment ==
    \A w \in Worlds :
        ChildInScope(w) /\ w.mgr[w.mgr[Top(w)].parent].addr_type = "BYTE" =>
            LET c == w.mgr[Top(w)]
                r == exit(w, Top(w), "None")
            IN  IF (c.cursor - c.base) % 8 = 0
                THEN r.err # "RuntimeError"
                ELSE /\ r.err = "RuntimeError"
                     /\ r.w.mgr[c.parent].cursor = w.mgr[c.parent].cursor

(* a child that stopped inside a byte failed to end its with statement *)
C8_Witness ==
    \E w \in Worlds :
        /\ w.last.how = "failed" /\ w.pending = "RuntimeError"
        /\ InScope(w) /\ w.mgr[Top(w)].addr_type = "BYTE"
        /\ w.reads > 0

ReadLens == {1, 7, 8, DATA_BUFFER_SIZE, DATA_BUFFER_SIZE + 1}

(* C9: on a manager that passes the guard read_bits(n), n > 0, returns    *)
(* the input bits cursor .. cursor + n - 1 and moves the cursor by n when *)
(* cursor + n is at most the bit length of the input, however the buffer  *)
(* is split into chunks and whatever was trimmed; otherwise it raises     *)
(* FBNoDataError and the cursor stays.                                    *)
C9_ReadBits ==
    \A w \in Worlds : \A m \in Mgrs(w) :
        fail_if_unsafe(w, m) = "None" =>
            \A n \in ReadLens :
                LET cursor == w.mgr[m].cursor
                    r == read_bits(w, srcLen, m, Some(n))
                IN  IF cursor + n <= 8 * srcLen
                    THEN /\ r.err = "None"
                         /\ r.val = [k |-> "bits", lo |-> cursor,
                                     hi |-> cursor + n, ok |-> TRUE]
                         /\ r.w.mgr[m].cursor = cursor + n
                    ELSE /\ r.err = "FBNoDataError"
                         /\ r.w.mgr[m].cursor = cursor

(* what a read on the innermost manager would raise and return *)
ReadResults(w) ==
    [n \in BitLens |->
        LET r == read_bits(w, srcLen, Top(w), n) IN [err |-> r.err, val |-> r.val]]

(* C10: after the same with statements, reads and exits a stream and a    *)
(* byte array of the same content, the empty one included, show the same  *)
(* errors and cursors and return the same data.                           *)
C10_StreamMatchesBytes ==
    \A v, w \in Worlds :
        /\ Seen(v) = Seen(w)
        /\ ReadResults(v) = ReadResults(w)

(* what read_bits(None) and read_bytes(None) are to return at cursor *)
RestBits(cursor) ==
    IF cursor < 8 * srcLen
    THEN [k |-> "bits", lo |-> cursor, hi |-> 8 * srcLen, ok |-> TRUE]
    ELSE EmptyBits

RestBytes(cursor) ==
    IF cursor < 8 * srcLen THEN ToBytes(RestBits(cursor)) ELSE EmptyBytes

(* r is a read to the end of the input from cursor *)
ReadToEnd(r, m, rest) ==
    /\ r.err = "None"
    /\ r.val = rest
    /\ r.w.mgr[m].cursor = 8 * srcLen

(* C11: on a manager that passes the guard, at every cursor up to and     *)
(* including the end of the input, read_bits(None) and read_bytes(None)   *)
(* succeed, return the bits from the cursor to the end of the input, the  *)
(* empty value when none remain, and set the cursor to the end.           *)
C11_ReadToEnd ==
    \A w \in Worlds : \A m \in Mgrs(w) :
        (fail_if_unsafe(w, m) = "None" /\ w.mgr[m].cursor <= 8 * srcLen) =>
            /\ ReadToEnd(read_bits(w, srcLen, m, None), m,
                         RestBits(w.mgr[m].cursor))
            /\ ReadToEnd(read_bytes(w, srcLen, m, None), m,
                         RestBytes(w.mgr[m].cursor))

(* r is an empty read that left w as it was *)
ReadNothing(r, w, empty) == r.err = "None" /\ r.val = empty /\ r.w = w

(* C12: on a manager that passes the guard read_bits(0) and read_bytes(0) *)
(* succeed at any cursor, return the empty value and leave every cursor   *)
(* and the buffer, its chunks, bounds and end-of-file flag, as they were. *)
C12_EmptyRead ==
    \A w \in Worlds : \A m \in Mgrs(w) :
        fail_if_unsafe(w, m) = "None" =>
            /\ ReadNothing(read_bits(w, srcLen, m, Some(0)), w, EmptyBits)
            /\ ReadNothing(read_bytes(w, srcLen, m, Some(0)), w, EmptyBytes)

(* a manager that passes the guard stands at the end of a non-empty input, *)
(* after a read that moved it there                                        *)
C12_Witness ==
    \E w \in Worlds : \E m \in Mgrs(w) :
        /\ fail_if_unsafe(w, m) = "None"
        /\ srcLen > 0
        /\ w.mgr[m].cursor = 8 * srcLen
        /\ read_bits(w, srcLen, m, Some(0)).val = EmptyBits

(* the same hierarchy with manager m addressed in bytes *)
AsByte(w, m) == [w EXCEPT !.mgr[m].addr_type = "BYTE"]

(* what a call gave and where it left the cursor of manager m *)
Given(r, m) == [err |-> r.err, val |-> r.val, cursor |-> r.w.mgr[m].cursor]

(* C24: a manager made with BYTE_STRICT gives the address a manager       *)
(* addressed in bytes gives, (cursor - base) / 8, its read(n) reads n     *)
(* bytes, and a child returning to it must have read whole bytes.         *)
C24_StrictLikeByte ==
    \A w \in Worlds : \A m \in Mgrs(w) :
        w.mgr[m].addr_type = "BYTE_STRICT" =>
            /\ fail_if_unsafe(w, m) = "None" =>
                  /\ address(w, m).val = address(AsByte(w, m), m).val
                  /\ \A n \in ByteLens :
                        Given(read(w, srcLen, m, n), m)
                            = Given(read(AsByte(w, m), srcLen, m, n), m)
            /\ \A c \in Mgrs(w) :
                  (w.mgr[c].parent = m /\ w.mgr[c].life = "entered"
                                      /\ ~HasLiveChild(w, c)) =>
                      exit(w, c, "None").err = exit(AsByte(w, m), c, "None").err

(* some scope that has not ended is revertible *)
HasRevertible(w) == \E j \in Mgrs(w) : w.mgr[j].revertible

(* one step of a hierarchy in which a revertible scope has not ended *)
TrimSuspended(w, w2) ==
    HasRevertible(w) /\ lower_bound(w2.buf) # lower_bound(w.buf) =>
        /\ ~HasRevertible(w2)
        /\ w2.last = [how |-> "returned", rev |-> TRUE]
        /\ lower_bound(w2.buf) <= w2.mgr[Top(w2)].cursor

(* C27: while a revertible scope or a scope inside it has not ended, no    *)
(* read, no trim and no entry or exit of a scope moves lower_bound; it     *)
(* moves again only in the step in which the outermost revertible scope    *)
(* ends normally, and then not past the parent's cursor.                   *)
C27_TrimSuspended ==
    [][\A k \in DOMAIN world : TrimSuspended(world[k], world'[k])]_vars

(* a revertible scope that read past a chunk has ended normally, and the   *)
(* chunk before the parent's cursor was discarded                          *)
C27_Witness ==
    \E w \in Worlds :
        /\ w.last = [how |-> "returned", rev |-> TRUE]
        /\ ~HasRevertible(w)
        /\ lower_bound(w.buf) > 0

(* C28: the cursor of every usable manager (entered, no scope of a child   *)
(* open) lies in the window the buffer holds: lower_bound <= cursor <=     *)
(* upper_bound, so that it can read from its cursor without a bounds error *)
(* for trimmed data.  Only managers that also pass their own guard, with   *)
(* no exception in flight, are looked at.                                  *)
C28_CursorInWindow ==
    \A w \in Worlds : \A m \in Mgrs(w) :
        Usable(w, m) /\ fail_if_unsafe(w, m) = "None" /\ w.pending = "None" =>
            /\ lower_bound(w.buf) <= w.mgr[m].cursor
            /\ w.mgr[m].cursor <= upper_bound(w.buf)

(* the with statement of the root has ended *)
Ended(w) == w.mgr[1].life \in {"returned", "reverted", "raised", "failed"}

(* C29: a DataManager is entered at most once: when its scope has ended,   *)
(* nothing, entering it again included, makes it usable, so that every     *)
(* read on it is refused.                                                  *)
C29_EnteredOnce ==
    \A w \in Worlds :
        Ended(w) =>
            \A n \in BitLens :
                /\ read_bits(w, srcLen, 1, n).err # "None"
                /\ read_bits(enter(w, 1), srcLen, 1, n).err # "None"

(* C30: a make_child that is rejected, for a change of mode without        *)
(* relative or for BYTE_STRICT at a cursor off the byte boundary, leaves   *)
(* the parent as it was: guard not set, cursor unchanged, still usable.    *)
C30_RejectedChildLeavesParent ==
    \A w \in Worlds : \A m \in Mgrs(w), a \in ChildArgs :
        /\ fail_if_unsafe(w, m) = "None"
        /\ make_child(w, m, a[1], a[2], a[3]).err # "None"
        => /\ make_child(w, m, a[1], a[2], a[3]).w.mgr[m] = w.mgr[m]
           /\ fail_if_unsafe(make_child(w, m, a[1], a[2], a[3]).w, m) = "None"

(* the mode a child asked for with addr_type gets under parent p *)
ChildMode(p, addr_type) == IF addr_type = "PARENT" THEN p.addr_type ELSE addr_type

(* the child that make_child returned in r *)
NewChild(r) == r.w.mgr[Len(r.w.mgr)]

(* what C31 says of make_child(relative, addr_type, revertible) on p, r    *)
(* being what the call gave                                                *)
ChildAsAsked(p, relative, addr_type, r) ==
    /\ ChildMode(p, addr_type) # p.addr_type /\ ~relative => r.err # "None"
    /\ r.err = "None" =>
          /\ NewChild(r).base = IF relative THEN p.cursor ELSE p.base
          /\ NewChild(r).addr_type = ChildMode(p, addr_type)
          /\ NewChild(r).cursor = p.cursor

(* C31: make_child with relative gives the child the parent's cursor as    *)
(* base, without it the parent's base; addr_type PARENT gives the parent's *)
(* mode, BYTE at the root; a child whose mode differs from the parent's    *)
(* without relative is rejected; the child's cursor is the parent's.       *)
C31_ChildBaseAndMode ==
    /\ RootManager("PARENT", FALSE).addr_type = "BYTE"
    /\ \A w \in Worlds : \A m \in Mgrs(w) :
          fail_if_unsafe(w, m) = "None" =>
              \A relative \in BOOLEAN, addr_type \in AddrTypes, revertible \in BOOLEAN :
                  ChildAsAsked(w.mgr[m], relative, addr_type,
                               make_child(w, m, relative, addr_type, revertible))

(* a child made without relative under a parent that had read: its base is *)
(* the parent's base, behind the cursor it started with                    *)
C31_Witness ==
    \E w \in Worlds : \E c \in Mgrs(w) :
        /\ w.mgr[c].parent # 0
        /\ w.mgr[c].base = w.mgr[w.mgr[c].parent].base
        /\ w.mgr[c].base < w.mgr[c].born
        /\ w.mgr[c].cursor = w.mgr[c].born


(* C34: in every state of a DataBuffer, built from a byte array or a       *)
(* stream of any length (the empty ones too) and after any reads, stream   *)
(* fills and trims, bounds is strictly increasing and holds one entry more *)
(* than there are chunks.                                                  *)
StrictlyIncreasing(s) == \A i \in 1..(Len(s) - 1) : s[i] < s[i + 1]

C34_BoundsIncrease ==
    \A w \in Worlds :
        /\ StrictlyIncreasing(w.buf.bounds)
        /\ Len(w.buf.bounds) = Len(w.buf.buffers) + 1


(* the chunks of b that lie wholly below addr *)
Below(b, addr) == {i \in DOMAIN b.buffers : b.bounds[i + 1] <= addr}

(* what trim(addr) is to leave of b: all but the chunks wholly below addr, *)
(* and the last chunk in any case                                          *)
Kept(b, addr) == {i \in DOMAIN b.buffers : i \notin Below(b, addr) \/ i = Len(b.buffers)}

First(S) == CHOOSE i \in S : \A j \in S : i <= j

DiscardsBelow(before, addr, after) ==
    IF before.buffers = <<>> THEN after = before
    ELSE /\ after.buffers = SubSeq(before.buffers, First(Kept(before, addr)),
                                   Len(before.buffers))
         /\ after.bounds = SubSeq(before.bounds, First(Kept(before, addr)),
                                  Len(before.bounds))

TrimmedOnce(x) ==
    /\ DiscardsBelow(x.before, x.addr, x.buf)
    /\ upper_bound(x.buf) = upper_bound(x.before)
    /\ trim(x.buf, x.addr).buf = x.buf

(* C35 as stated: after a trim(addr) that returned, exactly the leading    *)
(* chunks wholly below addr are gone, the last chunk excepted; upper_bound *)
(* is unchanged, lower_bound is at most addr, and a second trim(addr)      *)
(* changes nothing.                                                        *)
C35_AsClaimed ==
    world.buffer.op = "trim" /\ world.buffer.err = "None" =>
        /\ TrimmedOnce(world.buffer)
        /\ lower_bound(world.buffer.buf) <= world.buffer.addr

(* C35: after a trim(addr) that returned (addr is at most upper_bound and  *)
(* there is a chunk), exactly the leading chunks wholly below addr are     *)
(* gone, the last chunk excepted; upper_bound is unchanged, a second       *)
(* trim(addr) changes nothing, and lower_bound is at most addr when it was *)
(* so before the call; below lower_bound, trim(addr) discards nothing.     *)
C35_TrimDiscardsBelow ==
    world.buffer.op = "trim" /\ world.buffer.err = "None" =>
        /\ TrimmedOnce(world.buffer)
        /\ IF lower_bound(world.buffer.before) <= world.buffer.addr
           THEN lower_bound(world.buffer.buf) <= world.buffer.addr
           ELSE world.buffer.buf = world.buffer.before

(* a trim that discarded two chunks and kept the last one, all of it below *)
(* addr                                                                    *)
C35_Witness ==
    /\ world.buffer.op = "trim"
    /\ world.buffer.err = "None"
    /\ Len(world.buffer.before.buffers) = Len(world.buffer.buf.buffers) + 2
    /\ Len(world.buffer.buf.buffers) = 1
    /\ upper_bound(world.buffer.buf) = world.buffer.addr


(* the buffer b holds only chunks that reach past cursor, or one chunk, or *)
(* none when the stream never gave one                                     *)
Retained(b, cursor) ==
    \/ Len(b.buffers) <= 1
    \/ Len(b.buffers) > 1 /\ b.bounds[2] > cursor

ReadTrims(m, r) == r.err = "None" => Retained(r.w.buf, r.w.mgr[m].cursor)

(* the next read of a trim-safe manager of w, and the normal exit of the   *)
(* innermost scope when its parent is trim-safe, leave the buffer trimmed  *)
(* to the cursor                                                           *)
NextTrims(w) ==
    /\ \A m \in Mgrs(w) :
          w.mgr[m].trim_safe /\ fail_if_unsafe(w, m) = "None" =>
              \A n \in BitLens : ReadTrims(m, read_bits(w, srcLen, m, n))
    /\ InScope(w) /\ w.mgr[Top(w)].parent # 0
                  /\ w.mgr[w.mgr[Top(w)].parent].trim_safe =>
          ReadTrims(w.mgr[Top(w)].parent, exit(w, Top(w), "None"))

(* a read was made; the caller caught what it raised, if it did *)
ReadMade(r) == [r.w EXCEPT !.pending = "None"]

(* C36: after every successful read on a trim-safe manager, and after      *)
(* every normal exit of a child scope of a trim-safe manager, either a     *)
(* single chunk remains or the first chunk ends strictly after the cursor; *)
(* this in every state of the caller, and in those one more read away.     *)
C36_TrimmedToCursor ==
    \A w \in Worlds : w.pending = "None" =>
        /\ NextTrims(w)
        /\ \A m \in Mgrs(w) : fail_if_unsafe(w, m) = "None" =>
              \A n \in BitLens : NextTrims(ReadMade(read_bits(w, srcLen, m, n)))


CeilDiv8(bits) == (bits + 7) \div 8

(* the bytes the stream gave to the last call *)
BytesGot(x) ==
    IF x.op = "init" THEN x.buf.stream_pos
    ELSE x.buf.stream_pos - x.before.stream_pos

ChunksGot(x) ==
    IF x.op = "init" THEN Len(x.buf.buffers)
    ELSE Len(x.buf.buffers) - Len(x.before.buffers)

(* the last call filled from the stream as the statement says, for a       *)
(* DATA_BUFFER_SIZE of size_bits bits                                      *)
FilledBy(x, size_bits) ==
    /\ x.asked.read /\ x.asked.bits # None =>
          /\ x.asked.size = Some(CeilDiv8(Max(size_bits, x.asked.bits[1])))
          /\ BytesGot(x) < x.asked.size[1] => x.buf.stream_eof
    /\ x.asked.read => ChunksGot(x) \in {0, 1}
    /\ x.op = "init" /\ x.asked.read /\ srcLen * 8 >= size_bits =>
          BytesGot(x) * 8 = size_bits
    /\ x.op # "init" /\ x.before.stream_eof => ~x.asked.read
    /\ ~x.asked.read /\ x.op = "get_data" =>
          BytesGot(x) = 0 /\ ChunksGot(x) = 0

(* C37 as stated: every stream fill asks for                               *)
(* ceil(max(DATA_BUFFER_SIZE, requested bits) / 8) bytes in one read and   *)
(* appends at most one chunk, DATA_BUFFER_SIZE being 64 Kibit (8192        *)
(* bytes); a read that gives fewer bytes than asked marks EOF, and no read *)
(* is made after EOF.                                                      *)
C37_AsClaimed == FilledBy(world.buffer, 64 * 1024)

(* C37: every stream fill for a number of requested bits asks for          *)
(* ceil(max(DATA_BUFFER_SIZE, requested bits) / 8) bytes in one read and   *)
(* appends at most one chunk, DATA_BUFFER_SIZE being 8 Kibit (8192 bits,   *)
(* 1024 bytes), so that the initial fill of a long stream holds 1024       *)
(* bytes; a read that gives fewer bytes than asked marks EOF, and no read  *)
(* is made after EOF.                                                      *)
C37_FillSize ==
    /\ DATA_BUFFER_SIZE = 8192
    /\ FilledBy(world.buffer, 8192)
    /\ world.buffer.asked.read /\ world.buffer.asked.bits = None =>
          world.buffer.buf.stream_eof /\ ChunksGot(world.buffer) \in {0, 1}

(* a fill for more than DATA_BUFFER_SIZE bits that the stream could not    *)
(* give in full                                                            *)
C37_Witness ==
    /\ world.buffer.op = "get_data"
    /\ world.buffer.asked.read
    /\ world.buffer.asked.size = Some(DATA_BUFFER_SIZE \div 8 + 1)
    /\ BytesGot(world.buffer) = 1
    /\ ChunksGot(world.buffer) = 1
    /\ ~world.buffer.before.stream_eof
    /\ world.buffer.buf.stream_eof

(***************************************************************************)
(* Properties of Context                                                   *)
(***************************************************************************)
ValuesOf(ctx) == UNION {{ctx[j][k] : k \in DOMAIN ctx[j]} : j \in 1..Len(ctx)}

(* C13: while only inserts were made into a Context and its child layers, *)
(* every insert was stored under a key that no layer held at that moment: *)
(* n inserts gave n distinct keys and every inserted value is still       *)
(* there.                                                                 *)
C13_InsertsKeepEntries ==
    ~world.context.merged =>
        /\ ~world.context.clash
        /\ Cardinality(KeysOf(world.context.ctx)) = world.context.n
        /\ ValuesOf(world.context.ctx) = 1..world.context.n

(* the candidates of the insertion rule: k, then base + " " + str(i),     *)
(* i counting up, until one is absent                                     *)
RECURSIVE FirstAbsent(_, _, _, _)
FirstAbsent(ctx, candidate, base, i) ==
    IF candidate \in KeysOf(ctx)
    THEN FirstAbsent(ctx, Suffixed(base, i), base, i + 1)
    ELSE candidate

RuleKey(ctx, k) == FirstAbsent(ctx, k, k.base, IF k.i >= 0 THEN k.i ELSE 1)

(* C14: an insert of k is stored under the first candidate of the rule    *)
(* that is absent, k itself when k is absent, and changes nothing else.   *)
C14_InsertionRule ==
    \A j \in 1..Len(world.context.ctx) : \A k \in CKeys :
        Context_setitem(View(world.context.ctx, j), k, 0)
            = [View(world.context.ctx, j) EXCEPT
                  ![1] = MapSet(@, RuleKey(View(world.context.ctx, j), k), 0)]

(* update_ext kept the entries of the next layer and has every value of   *)
(* the top layer in it, and cleared the top *)
Merged(ctx, u) ==
    /\ u.err = "None"
    /\ u.ctx[1] = EmptyMap
    /\ \A k \in DOMAIN ctx[2] : k \in DOMAIN u.ctx[2] /\ u.ctx[2][k] = ctx[2][k]
    /\ \A k \in DOMAIN ctx[1] : \E k2 \in DOMAIN u.ctx[2] : u.ctx[2][k2] = ctx[1][k]
    /\ Cardinality(DOMAIN u.ctx[2])
          = Cardinality(DOMAIN ctx[2]) + Cardinality(DOMAIN ctx[1])

(* C15: after any inserts into either layer update_ext merges the top     *)
(* layer into the next one, renaming as an insert does, and clears the    *)
(* top: no entry of the next layer is overwritten or lost and every entry *)
(* of the top layer is present afterwards.                                *)
C15_UpdateExtKeepsEntries ==
    (Len(world.context.ctx) > 1 /\ ~world.context.merged) =>
        Merged(world.context.ctx, update_ext(world.context.ctx))

(***************************************************************************)
(* Properties of BitwiseBytes                                              *)
(***************************************************************************)
(* the unsigned value of bits read most significant bit first *)
RECURSIVE ValueOf(_)
ValueOf(bools) ==
    IF bools = <<>> THEN 0
    ELSE 2 * ValueOf(SubSeq(bools, 1, Len(bools) - 1))
         + (IF bools[Len(bools)] THEN 1 ELSE 0)

(* C21: for an object of length L > 0, over any bytes and any start       *)
(* offset, bytes() gives ceil(L / 8) bytes and int() the unsigned value   *)
(* of the L bits that to_bools returns, most significant first.           *)
C21_BytesAndInt ==
    world.bits.self.length > 0 =>
        /\ Len(BitwiseBytes_bytes(world.bits.self))
              = uptobyte(world.bits.self.length)
        /\ BitwiseBytes_index(world.bits.self)
              = Some(ValueOf(to_bools(world.bits.self)))

(* the objects made from bytes *)
ObjectsOver(data) ==
    {BitwiseBytes_of_bytes(data, r[1], Some(r[2]))[1] : r \in Ranges(8 * Len(data))}

Objects == UNION {ObjectsOver(data) : data \in Datas}

(* C22: two objects are equal exactly when they have the same length and  *)
(* the same bits, whatever their bytes and start offsets.                 *)
C22_EqualByContent ==
    \A other \in Objects :
        BitwiseBytes_eq(world.bits.self, other)
            <=> to_bools(world.bits.self) = to_bools(other)

(* the bytes of data with their bits from bit stop on set to zero, up to  *)
(* the byte that holds bit stop - 1                                       *)
ZeroedAfter(data, stop) ==
    [i \in 1..uptobyte(stop) |->
        IF 8 * i <= stop THEN data[i]
        ELSE data[i] - LowBits(data[i], 8 * i - stop)]

C38_SliceOfBits ==
    \A r \in Ranges(world.bits.self.length) :
        /\ BitwiseBytes_slice(world.bits.self, r[1], r[2]) # None
        /\ to_bools(BitwiseBytes_slice(world.bits.self, r[1], r[2])[1])
              = SubSeq(to_bools(world.bits.self), r[1] + 1, r[2])

(* the constructor, given start and stop over a source of n bits, returned *)
(* o (None: it raised IndexError)                                          *)
Constructed(o, start, stop, n) ==
    IF start \notin 0..n \/ stop \notin 0..n \/ stop < start
    THEN o = None
    ELSE o # None /\ o[1].length = stop - start /\ o[1].length >= 0

(* C39: every object the constructor returns has 0 <= length = stop -      *)
(* start; a start or stop outside 0 .. bit length of the source, and a     *)
(* stop before start, is rejected with IndexError.                         *)
C39_ConstructorBounds ==
    /\ \A start, stop \in -1..(8 * Len(world.bits.self.data) + 1) :
          Constructed(BitwiseBytes_of_bytes(world.bits.self.data, start, Some(stop)),
                      start, stop, 8 * Len(world.bits.self.data))
    /\ \A start, stop \in -1..(world.bits.self.length + 1) :
          Constructed(BitwiseBytes_of_bits(world.bits.self, start, Some(stop)),
                      start, stop, world.bits.self.length)

(***************************************************************************)
(* Properties of Repeat and Array                                          *)
(***************************************************************************)
(* the contexts once an earlier parser has stored n under "n" *)
CountIn(ctx, n) == Context_setitem(ctx, Key(<<"n">>), IntVal(n))

(* C25: Repeat and Array take the repetition count as an int or as a str   *)
(* key: given a key, the parser is constructed, and read finds the count   *)
(* in the contexts and runs the wrapped parser that many times.            *)
C25_CountFromContext ==
    \A w \in Worlds :
        ~w.parser.repeat_qty.int =>
            /\ w.parser.err = "None"
            /\ \A n \in 1..MaxQty :
                  repeat_reps(CountIn(w.ctx, n), w.parser.repeat_qty)
                      = [err |-> "None", val |-> n]

ARevert == [how |-> "reverted", rev |-> TRUE]

(* the cursor and the context around the scope that has just reverted are *)
(* what they were when the scope was entered                              *)
RevertRestores(w) ==
    w.last = ARevert =>
        /\ w.pending = "None"
        /\ w.mgr[Top(w)].cursor = w.snap.cursor
        /\ TopFrame(w).ctx = w.snap.ctx

(* what parse gave: its dict or its exception, and where the cursor is *)
Outcome(w) ==
    [done |-> w.done, out |-> w.out, pending |-> w.pending,
     cursor |-> w.mgr[1].cursor]

(* the parse that has ended gave what the tree without w.marked gives on  *)
(* the same input                                                         *)
SameAsCut(k) ==
    Outcome(world[k]) =
        Outcome(Run(InitParse(k, srcLen, world[k].cut, world[k].cut,
                              world[k].marked)))

AddrUnit(w, m) == IF w.mgr[m].addr_type = "BYTE" THEN 8 ELSE 1

(* the label of a spacer from c to t *)
SpacerKey(c, t) ==
    IF t - c = 1 THEN Key(<<"spacer", c>>) ELSE Key(<<"spacer", c, t - 1>>)

(* the bits from cursor to stop, as bytes *)
BytesRead(cursor, stop) ==
    ToBytes([k |-> "bits", lo |-> cursor, hi |-> stop, ok |-> TRUE])

(* s is a spacer step from address c to t on manager m: it read t - c     *)
(* units from the cursor and stored them under the label of the spacer    *)
SpacerStep(w, m, ctx, c, t, s) ==
    IF t = c THEN s.err = "None" /\ s.w = w /\ s.ctx = ctx
    ELSE /\ s.err = "None"
         /\ s.w.mgr[m].cursor = w.mgr[m].cursor + (t - c) * AddrUnit(w, m)
         /\ address(s.w, m).val.lo = t
         /\ \A o \in Mgrs(w) \ {m} : s.w.mgr[o] = w.mgr[o]
         /\ s.ctx = [ctx EXCEPT ![1] =
                        MapSet(@, SpacerKey(c, t),
                               BytesRead(w.mgr[m].cursor,
                                         w.mgr[m].cursor + (t - c) * AddrUnit(w, m)))]

(* the targets the input reaches from address c, when no entry of ctx has *)
(* the label of the spacer                                                *)
SpacerTargets(w, m, ctx, c) ==
    {t \in c..(c + 3) :
        /\ w.mgr[m].cursor + (t - c) * AddrUnit(w, m) <= 8 * srcLen
        /\ SpacerKey(c, t) \notin KeysOf(ctx)}

RECURSIVE ConsumedBy(_)
RECURSIVE ConsumedFrom(_, _)
ConsumedFrom(map, k) ==
    (IF k.base[1] = "Block" THEN ConsumedBy(map[k]) ELSE map[k].hi - map[k].lo)
        + ConsumedBy([j \in DOMAIN map \ {k} |-> map[j]])

ConsumedBy(map) ==
    IF DOMAIN map = {} THEN 0
    ELSE ConsumedFrom(map, CHOOSE k \in DOMAIN map : TRUE)

(* C17: when parse has returned, the cursor of the root manager is the    *)
(* sum of the lengths of what the leaves and the spacers of the tree read *)
(* and stored, a Section that reverted adding nothing.                    *)
C17_FinalCursor ==
    \A w \in Worlds :
        w.done = "returned" => w.mgr[1].cursor = ConsumedBy(w.out[1])

(* a parse returned short of the end of the input after a spacer was      *)
(* stored and an optional Section reverted                                *)
C17_Witness ==
    \E w \in Worlds :
        /\ w.done = "returned"
        /\ w.cutrev
        /\ w.spaced
        /\ w.mgr[1].cursor > 8
        /\ w.mgr[1].cursor < 8 * srcLen

(* the tree parse was called on *)
Root(w) == w.frames[1].elements[1]

(* parse of the same tree on the input of world[k] followed by y bytes *)
WithSuffix(k, y) ==
    Run(InitParse(k, srcLen + y, Root(world[k]), world[k].cut, world[k].marked))

SameResult(w, v) == v.done = "returned" /\ v.out = w.out

(* parse has returned with the cursor at the end of the input *)
ConsumedExactly(w) == w.done = "returned" /\ w.mgr[1].cursor = 8 * srcLen

RootFields(w) == w.frames[1].ctx[1][Key(<<"Block", 0>>)]

(* C19: parse on a root Block returns the fields of the Block as the      *)
(* top-level map, a labelled field under its label and an unlabelled one  *)
(* under its backup label and address.                                    *)
C19_RootBlockFields ==
    \A w \in Worlds :
        w.done = "returned" => w.out[1] = RootFields(w)

(* the address of manager m relative to the base of its scope, in the     *)
(* units of its mode                                                      *)
RelativeAddress(w, m) == (w.mgr[m].cursor - w.mgr[m].base) \div AddrUnit(w, m)

(* the key of parser p read at address addr: its label, or its backup     *)
(* label and the address                                                  *)
EffectiveLabel(p, addr) ==
    IF p.label # None THEN Key(<<p.label[1]>>) ELSE Key(<<backup_label(p), addr>>)

(* ctx2 is ctx with one more entry, under key or, when ctx holds key,     *)
(* under the name the insertion rule gives it                             *)
StoredUnder(ctx, key, ctx2) ==
    /\ RuleKey(ctx, key) \notin DOMAIN ctx[1]
    /\ DOMAIN ctx2[1] = DOMAIN ctx[1] \cup {RuleKey(ctx, key)}
    /\ \A k \in DOMAIN ctx[1] : ctx2[1][k] = ctx[1][k]
    /\ Tail(ctx2) = Tail(ctx)

(* the entry of the leaf w is about to read, in the world v after it *)
LeafStored(w, t, v) ==
    v.pending = "None" =>
        StoredUnder(TopFrame(w).ctx,
                    EffectiveLabel(Element(w), RelativeAddress(w, t)),
                    v.frames[t].ctx)

(* the entry of the Block w is about to return from, in the world v after *)
(* it: the address is that of the enclosing manager, which has not moved  *)
BlockStored(w, t, v) ==
    v.pending = "None" =>
        StoredUnder(w.frames[t - 1].ctx,
                    EffectiveLabel(TopFrame(w).node, RelativeAddress(w, t - 1)),
                    v.frames[t - 1].ctx)

ElementDone(w, w2, t) ==
    /\ w.done = "running" /\ w2.done = "running" /\ w2.pending = "None"
    /\ t = Len(w2.frames) /\ t <= Len(w.frames)
    /\ w2.frames[t].i = w.frames[t].i + 1

(* what the step stored in the map of frame t *)
NewKeys(w, w2, t) == DOMAIN w2.frames[t].ctx[1] \ DOMAIN w.frames[t].ctx[1]

(* a leaf is done: it read from the cursor it found to the cursor it left, *)
(* and what it read is stored                                              *)
LeafDone(w, w2, t) ==
    \E key \in NewKeys(w, w2, t) :
        /\ NewKeys(w, w2, t) = {key}
        /\ w2.frames[t].ctx[1][key].lo = w.mgr[t].cursor
        /\ w2.frames[t].ctx[1][key].hi = w2.mgr[t].cursor

(* a Block or Section is done: the enclosing cursor is where its scope     *)
(* left off, or, when it Reverted, where its scope began; what a Section   *)
(* stored is found in the enclosing context, a Block's dict under one key  *)
ScopeDone(w, w2, t) ==
    IF w2.last.how = "reverted"
    THEN w2.mgr[t].cursor = w.frames[t + 1].snap.cursor
    ELSE /\ w2.mgr[t].cursor = w.mgr[t + 1].cursor
         /\ IF w.frames[t + 1].node.type = "Block"
            THEN \E key \in NewKeys(w, w2, t) :
                    w2.frames[t].ctx[1][key] = AsDict(w.frames[t + 1].ctx)
            ELSE \A key \in DOMAIN w.frames[t + 1].ctx[1] :
                    /\ key \in DOMAIN AsDict(w2.frames[t].ctx)
                    /\ AsDict(w2.frames[t].ctx)[key] = w.frames[t + 1].ctx[1][key]

(* the next element starts now, with every value of the earlier ones *)
NextSeesEarlier(w, w2, t) ==
    /\ w2.frames[t].phase = "goto"
    /\ \A key \in DOMAIN AsDict(w.frames[t].ctx) :
          /\ key \in DOMAIN AsDict(w2.frames[t].ctx)
          /\ AsDict(w2.frames[t].ctx)[key] = AsDict(w.frames[t].ctx)[key]
    /\ IF Len(w.frames) = t THEN LeafDone(w, w2, t) ELSE ScopeDone(w, w2, t)

AddressAt(m, cursor) ==
    IF m.addr_type = "BYTE" THEN (cursor - m.base) \div 8 ELSE cursor - m.base

(* the Section w.marked, which has a target address, has just Reverted *)
AddressedReverted(w) ==
    /\ w.last = ARevert /\ w.cutrev /\ w.done = "running"
    /\ w.marked.address # None

(* ctx is before with the spacer from cursor c0 to cursor c1 added *)
WithSpacer(before, ctx, c0, c1) ==
    \E key \in DOMAIN ctx[1] \ DOMAIN before[1] :
        /\ key.base[1] = "spacer"
        /\ ctx = [before EXCEPT ![1] = MapSet(before[1], key, ctx[1][key])]
        /\ ctx[1][key].lo = c0 /\ ctx[1][key].hi = c1

=============================================================================
